---- MODULE Spec2Model ----
(***************************************************************************)
(* Content-scoring and consistency engine of solace (solace/models.py,     *)
(* solace/badges.py, solace/database.py): vote ledger, reputation policy,  *)
(* accepted answers and badge awards, as a state machine over the mapped   *)
(* tables.                                                                 *)
(*                                                                         *)
(* A counter column changed through atomic_add is a cell                   *)
(*   [loc |-> value of the attribute in the session's object,              *)
(*    db  |-> value of the column in the database,                         *)
(*    exp |-> the attribute is expired: the next read loads db].           *)
(* Every other column is a plain value: the attribute of the session's     *)
(* object, written to the row at the next flush.                           *)
(*                                                                         *)
(* The per-locale activity counter (User.touch_activity) and the           *)
(* per-request vote cache (User._vote_cache) are not part of the state:    *)
(* no operation of the engine reads them back.                             *)
(*                                                                         *)
(* The specifications share the state:                                     *)
(*   Spec          every vote of NUsers users on a question and replies;   *)
(*   SpecPolicy    the votes of NVoters users on another user's posts;     *)
(*   SpecAccept    accept_answer on a topic with NAnswers replies, with    *)
(*                 votes on the topic in between;                          *)
(*   SpecBadges    up to MaxOps vote, accept, edit and new-topic events    *)
(*                 on a forum whose replies NCrowd users have upvoted;     *)
(*   SpecForum     topics with tags, replies, deletion and restoration;    *)
(*   SpecTags      bind_tags on topics of two locales;                     *)
(*   SpecRevisions edits of posts and restorations of their revisions;     *)
(*   SpecAtomic    NRequests concurrent sessions calling atomic_add;       *)
(*   SpecTxn       a request statement by statement in its transaction,    *)
(*                 which may be aborted;                                   *)
(*   SpecView      votes through the vote view and its guards;             *)
(*   SpecHotness   the hotness of two topics under votes;                  *)
(*   SpecRace      NRacers requests that vote on, or edit, the same posts  *)
(*                 at the same time, each in a session of its own;         *)
(*   SpecReputation votes and accepted answers, for the reputation ledger; *)
(*   SpecGreat     votes and accept_answer on replies that NAdmirers and   *)
(*                 more users have upvoted;                                *)
(*   SpecCurrent   up to MaxOps events on a fresh topic, for its hotness.  *)
(* Every operation is followed by session.commit(), as in the views.       *)
(* `last`, `pre` and `held` record the operation that led to a state and   *)
(* what it started from; no operation reads them. `persisted` and          *)
(* `requests` are used by SpecAtomic, SpecTxn and SpecRace only. A date is *)
(* a number of microseconds after the reference instant of the hotness.    *)
(***************************************************************************)
EXTENDS Integers, Sequences, FiniteSets, Bags, TLC

VARIABLES
  users,           \* table users, by user_id
  topics,          \* table topics, by topic_id
  posts,           \* table posts, by post_id
  votes,           \* table votes: rows (user, post, delta)
  post_revisions,  \* table post_revisions, by revision_id
  user_messages,   \* table user_messages: per user, the texts
  last,            \* history: the operation that led to this state
  pre,             \* history: the counters that operation started from
  held,            \* history: the badges held when that operation started
  tags,            \* the tags table: one record per Tag
  persisted,       \* the committed rows, what another transaction reads
  requests         \* the requests in flight, each with its own session

vars ==
  <<users, topics, posts, votes, post_revisions, user_messages, last, pre, held,
    tags, persisted, requests>>

(* ---------------- bounds of the model ---------------- *)

\* number of users that act
NUsers == 2

\* replies of the topic the ledger specification starts with
NReplies == 1

\* replies of the topic the accepted-answer specification starts with
NAnswers == 2

\* users other than the author who vote in the policy specification
NVoters == 2

\* further users who upvoted the replies before the badge specification starts
NCrowd == 9

\* topics the badge specification lets exist
MaxTopics == 2

\* events one behaviour of the badge specification processes
MaxOps == 3

\* texts and dates an edit or a new topic is given
NTexts == 1

NDates == 1

Users == 1..NUsers

\* None where an object is expected (a NULL foreign key); ids start at 1
None == 0

\* None as the payload of a UserBadge (the payloads are strings)
NoPayload == "None"

\* a callback that returns None
Nothing == {}

\* posts of the forum under deletion and tagging
MaxPosts == 3

\* how far a tag counter may be from zero
MaxTagged == 1

\* texts and dates of the edits of a post with revisions
NRevTexts == 2

NRevDates == 2

\* requests that are served at the same time
NRequests == 3

\* revisions a post may have in a forum whose requests can fail
MaxRevisions == 1

\* users that vote on the topics whose hotness is compared
NFans == 3

\* requests that vote at the same time
NRacers == 2

\* users who upvoted the first reply before the much-voted forum starts, one
\* short of Great Answer; twice as many and one upvoted the second reply, one
\* short of Unique Answer
NAdmirers == 74

(* ---------------- solace/settings.py: REPUTATION_MAP ---------------- *)

GAIN_ON_UPVOTE == 10

GAIN_ON_QUESTION_UPVOTE == 1

LOSE_ON_DOWNVOTE == 2

DOWNVOTE_PENALTY == 1

GAIN_ON_ACCEPTED_ANSWER == 50

LOSE_ON_LOST_ANSWER == 50

\* reputation needed to upvote and to downvote
UPVOTE == 15

DOWNVOTE == 100

(* ---------------- the session and the database ---------------- *)

\* a freshly stored counter column
Cell(v) == [loc |-> v, db |-> v, exp |-> FALSE]

\* reading a mapped attribute: an expired attribute is loaded from its row
get_attribute(c) == IF c.exp THEN c.db ELSE c.loc

\* the tables as one value, so that the methods are functions of the state
State ==
  [users |-> users, topics |-> topics, posts |-> posts, votes |-> votes,
   post_revisions |-> post_revisions, user_messages |-> user_messages,
   tags |-> tags]

\* an object created in this transaction whose INSERT was not emitted yet has
\* no primary key: the UPDATE of atomic_add matches no row
is_pending(s, tbl, id) == tbl # "users" /\ s[tbl][id].pending

\* an add computed in the process: the row gets the local value plus delta
atomic_add_local(s, tbl, id, column, delta, expire) ==
  LET c == s[tbl][id][column]
      val == get_attribute(c)
  IN [s EXCEPT ![tbl][id][column] =
        [loc |-> IF expire THEN val ELSE val + delta,
         db  |-> IF is_pending(s, tbl, id) THEN c.db ELSE val + delta,
         exp |-> expire]]

\* database.atomic_add: the attribute is updated in place (or expired), the
\* real add is a single UPDATE col = col + delta on the row
atomic_add(s, tbl, id, column, delta, expire) ==
  LET c == s[tbl][id][column]
      val == get_attribute(c)
  IN [s EXCEPT ![tbl][id][column] =
        [loc |-> IF expire THEN val ELSE val + delta,
         db  |-> IF is_pending(s, tbl, id) THEN c.db ELSE c.db + delta,
         exp |-> expire]]

\* Session.flush: the INSERT of every pending object stores its attributes
flush_topic(r) ==
  IF r.pending
    THEN [r EXCEPT !.pending = FALSE, !.reply_count = Cell(@.loc)]
    ELSE r

flush_post(r) ==
  IF r.pending
    THEN [r EXCEPT !.pending = FALSE, !.votes = Cell(@.loc), !.edits = Cell(@.loc)]
    ELSE r

flush_tag(r) ==
  IF r.pending
    THEN [r EXCEPT !.pending = FALSE, !.tagged = Cell(@.loc)]
    ELSE r

flush(s) ==
  [s EXCEPT !.topics = [t \in DOMAIN s.topics |-> flush_topic(s.topics[t])],
            !.posts = [p \in DOMAIN s.posts |-> flush_post(s.posts[p])],
            !.tags = [g \in DOMAIN s.tags |-> flush_tag(s.tags[g])]]

\* Session.commit flushes; the rows then are what other transactions see
commit(s) == flush(s)

\* a session that commits every statement on its own
autocommit_on == TRUE

\* database.session: create_session(..., autocommit=False)
autocommit == FALSE

\* reading an attribute inside a method loads it when it is expired
load(c) == [c EXCEPT !.loc = get_attribute(c), !.exp = FALSE]

(* ---------------- solace/badges.py ---------------- *)

\* str(post.id), the payload of a repeatable badge
str(n) == ToString(n)

badge_list ==
  <<"critic", "editor", "inquirer", "troubleshooter", "nice-answer",
    "good-answer", "self-learner", "self-critic", "great-answer",
    "unique-answer", "reversal">>

Levels == {"bronce", "silver", "gold", "platin"}

\* Badge.level of the catalogue entries
level(b) ==
  CASE b \in {"critic", "editor", "inquirer", "nice-answer"} -> "bronce"
    [] b \in {"self-critic", "troubleshooter", "good-answer", "self-learner"} -> "silver"
    [] b \in {"great-answer", "reversal"} -> "gold"
    [] b = "unique-answer" -> "platin"

\* Badge.single_awarded of the catalogue entries
single_awarded(b) ==
  b \in {"critic", "self-critic", "editor", "inquirer", "troubleshooter"}

\* user.badges, the association proxy: the badge of every UserBadge row
user_badges(u) == BagOfAll(LAMBDA ub : ub.badge, u._badges)

\* `for user_badge in user._badges: if user_badge.badge == badge and
\* user_badge.payload == pid: return`
holds_payload(u, badge, pid) ==
  \E ub \in BagToSet(u._badges) : ub.badge = badge /\ ub.payload = pid

\* a callback that returns a user, or a (user, payload) pair
Award(user, payload) == {[user |-> user, payload |-> payload]}

_try_award_special_answer(s, post, badge, votes_required) ==
  LET pid == str(post)
      user == s.posts[post].author
  IN IF holds_payload(s.users[user], badge, pid) THEN Nothing
     ELSE IF s.posts[post].is_answer
             /\ get_attribute(s.posts[post].votes) >= votes_required
       THEN Award(user, pid)
     ELSE Nothing

_try_award_self_learner(s, post) ==
  LET pid == str(post)
      user == s.posts[post].author
  IN IF holds_payload(s.users[user], "self-learner", pid) THEN Nothing
     ELSE IF s.posts[post].is_answer
             /\ s.posts[post].author = s.topics[s.posts[post].topic].author
             /\ get_attribute(s.posts[post].votes) >= 3
       THEN Award(user, pid)
     ELSE Nothing

_try_award_reversal(s, post) ==
  LET pid == str(post)
      user == s.posts[post].author
  IN IF holds_payload(s.users[user], "reversal", pid) THEN Nothing
     ELSE IF s.posts[post].is_answer
             /\ get_attribute(s.posts[post].votes) >= 20
             /\ s.topics[s.posts[post].topic].votes <= -5
       THEN Award(user, pid)
     ELSE Nothing

\* the on_vote callbacks; Nothing also stands for a badge without the callback
on_vote(s, b, user, post, delta) ==
  CASE b = "critic" ->
         IF delta < 0 /\ user # s.posts[post].author THEN Award(user, NoPayload) ELSE Nothing
    [] b = "self-critic" ->
         IF delta < 0 /\ user = s.posts[post].author THEN Award(user, NoPayload) ELSE Nothing
    [] b = "nice-answer" -> _try_award_special_answer(s, post, "nice-answer", 10)
    [] b = "good-answer" -> _try_award_special_answer(s, post, "good-answer", 25)
    [] b = "great-answer" -> _try_award_special_answer(s, post, "good-answer", 75)
    [] b = "unique-answer" -> _try_award_special_answer(s, post, "good-answer", 150)
    [] b = "reversal" -> _try_award_reversal(s, post)
    [] b = "self-learner" -> _try_award_self_learner(s, post)
    [] OTHER -> Nothing

\* the on_accept callbacks
on_accept(s, b, user, topic, post) ==
  CASE b = "troubleshooter" ->
         IF post # None THEN Award(s.posts[post].author, NoPayload) ELSE Nothing
    [] b = "nice-answer" ->
         IF post # None THEN _try_award_special_answer(s, post, "nice-answer", 10) ELSE Nothing
    [] b = "good-answer" ->
         IF post # None THEN _try_award_special_answer(s, post, "good-answer", 25) ELSE Nothing
    [] b = "great-answer" ->
         IF post # None THEN _try_award_special_answer(s, post, "good-answer", 75) ELSE Nothing
    [] b = "unique-answer" ->
         IF post # None THEN _try_award_special_answer(s, post, "good-answer", 150) ELSE Nothing
    [] b = "reversal" -> IF post # None THEN _try_award_reversal(s, post) ELSE Nothing
    [] b = "self-learner" -> IF post # None THEN _try_award_self_learner(s, post) ELSE Nothing
    [] OTHER -> Nothing

\* the on_edit callbacks
on_edit(s, b, user, post) ==
  IF b = "editor" THEN Award(user, NoPayload) ELSE Nothing

\* the on_new_topic callbacks
on_new_topic(s, b, user, topic) ==
  IF b = "inquirer" THEN Award(user, NoPayload) ELSE Nothing

\* the on_reply callbacks: no badge of the catalogue has one
on_reply(s, b, user, post) == Nothing

\* attrgetter('on_' + event)(badge)(*args), args = [user, topic, post, delta]
callback(s, b, event, a) ==
  CASE event = "vote" -> on_vote(s, b, a.user, a.post, a.delta)
    [] event = "accept" -> on_accept(s, b, a.user, a.topic, a.post)
    [] event = "edit" -> on_edit(s, b, a.user, a.post)
    [] event = "new_topic" -> on_new_topic(s, b, a.user, a.topic)
    [] event = "reply" -> on_reply(s, b, a.user, a.post)

\* models.BadgeExtension.count_badges: the four counters are zeroed and
\* recounted from the given badges
count_badges(u, badgeiter) ==
  LET n(lv) == BagCardinality(
                 [b \in {x \in BagToSet(badgeiter) : level(x) = lv} |-> badgeiter[b]])
  IN [u EXCEPT !.bronce_badges = n("bronce"), !.silver_badges = n("silver"),
               !.gold_badges = n("gold"), !.platin_badges = n("platin")]

\* the recount as it would be without the row being appended
badges_append_uncounted(u, value) ==
  LET counted == count_badges(u, user_badges(u))
  IN [counted EXCEPT !._badges = @ (+) SetToBag({value})]

\* user._badges.append(value): BadgeExtension.append recounts over
\* chain(user.badges, [value.badge]), then the row joins the collection
badges_append(u, value) ==
  LET counted == count_badges(u, user_badges(u) (+) SetToBag({value.badge}))
  IN [counted EXCEPT !._badges = @ (+) SetToBag({value})]

\* user._badges.remove(value): BadgeExtension.remove recounts over
\* set(user.badges) without value.badge, then the row leaves the collection
badges_remove(u, value) ==
  LET badges == BagToSet(user_badges(u)) \ {value.badge}
      counted == count_badges(u, SetToBag(badges))
  IN [counted EXCEPT !._badges = @ (-) SetToBag({value})]

\* models.UserMessage(user, text), text naming the badge
UserMessage(s, user, badge) ==
  [s EXCEPT !.user_messages[user] = @ (+) SetToBag({badge})]

\* the body of the loop as it would be without the single_awarded test
award_one_again(s, b, event, a) ==
  LET cb == callback(s, b, event, a)
      r == CHOOSE x \in cb : TRUE
  IN IF cb = Nothing THEN s
     ELSE LET s1 == [s EXCEPT !.users[r.user] =
                       badges_append(@, [badge |-> b, payload |-> r.payload])]
          IN IF s1.users[r.user].is_active /\ ~s1.users[r.user].is_banned
               THEN UserMessage(s1, r.user, b)
               ELSE s1

\* the body of the loop of try_award for one badge
award_one(s, b, event, a) ==
  LET cb == callback(s, b, event, a)
      r == CHOOSE x \in cb : TRUE
  IN IF cb = Nothing THEN s
     ELSE IF single_awarded(b) /\ BagIn(b, user_badges(s.users[r.user])) THEN s
     ELSE LET s1 == [s EXCEPT !.users[r.user] =
                       badges_append(@, [badge |-> b, payload |-> r.payload])]
          IN IF s1.users[r.user].is_active /\ ~s1.users[r.user].is_banned
               THEN UserMessage(s1, r.user, b)
               ELSE s1

RECURSIVE try_award_from(_, _, _, _)
try_award_from(s, i, event, a) ==
  IF i > Len(badge_list) THEN s
  ELSE try_award_from(award_one(s, badge_list[i], event, a), i + 1, event, a)

\* badges.try_award(event, *args)
try_award(s, event, a) == try_award_from(s, 1, event, a)

(* ---------------- solace/models.py ---------------- *)

\* models.User.__init__: a user without votes, reputation or badges
User_init ==
  [upvotes |-> Cell(0), downvotes |-> Cell(0), reputation |-> Cell(0),
   bronce_badges |-> 0, silver_badges |-> 0, gold_badges |-> 0,
   platin_badges |-> 0, is_admin |-> FALSE, is_active |-> TRUE,
   is_banned |-> FALSE,
   _badges |-> EmptyBag]

\* the reference instant of the hotness, in seconds since 1970
HotnessReference == 1134028003

\* the seconds one unit of hotness is worth
HotnessPeriod == 45000

\* the decimals the hotness is rounded to
HotnessDigits == 7

\* a date d of the model is the instant d microseconds after the reference:
\* its seconds since 1970 are HotnessReference + d / 10^6
microseconds(date) == date

\* the microseconds one unit of the last decimal is worth: 45000 s / 10^7
HotnessStep == HotnessPeriod \div (10^HotnessDigits \div 10^6)

\* log(n, 10) in units of the last decimal, n = 1, 2, ...
Log10Table ==
  <<0, 3010300, 4771213, 6020600, 6989700, 7781513, 8450980, 9030900,
    9542425, 10000000, 10413927, 10791812>>

log10(n) == Log10Table[n]

abs(n) == IF n < 0 THEN -n ELSE n

max(a, b) == IF a > b THEN a ELSE b

\* round(a / b) for b > 0, halves away from zero as Python 2 rounds
round(a, b) ==
  IF a >= 0 THEN (2 * a + b) \div (2 * b) ELSE -((2 * (-a) + b) \div (2 * b))

\* a hotness that takes the age of a topic off instead of adding it
hotness_older_first(vote_count, date) ==
  LET order == log10(max(abs(vote_count), 1))
      sign == IF vote_count > 0 THEN 1 ELSE IF vote_count < 0 THEN -1 ELSE 0
  IN order - round(sign * microseconds(date), HotnessStep)

\* the hotness of a topic with these votes and this date, in units of the
\* last decimal: round(order + sign * secs / 45000, 7)
hotness(vote_count, date) ==
  LET order == log10(max(abs(vote_count), 1))
      sign == IF vote_count > 0 THEN 1 ELSE IF vote_count < 0 THEN -1 ELSE 0
  IN order + round(sign * microseconds(date), HotnessStep)

\* models.Topic._update_hotness; the state is computed once, then used
_update_hotness(s, topic) ==
  CHOOSE r \in {[x EXCEPT !.topics[topic].hotness =
                            hotness(x.topics[topic].votes, x.topics[topic].date)] :
                  x \in {s}} : TRUE

\* the badge events Post.__init__ hands to try_award:
\* `if not is_reply: try_award('reply', author, self)`
Post_init_dispatches(is_reply) == IF ~is_reply THEN {"reply"} ELSE {}

\* the badge events Topic.__init__ hands to try_award: those of the question
\* post it creates with is_reply=False, then 'new_topic'
Topic_init_dispatches == Post_init_dispatches(FALSE) \cup {"new_topic"}

\* models.Post.__init__: `self.topic = topic` appends to topic.posts, which
\* fires ReplyCollectionExtension.append; only the question fires 'reply'
Post_init(s, topic, author, text, date, is_reply) ==
  LET pid == Len(s.posts) + 1
      s1 == atomic_add(s, "topics", topic, "reply_count", 1, FALSE)
      s2 == [s1 EXCEPT !.posts = Append(@,
               [topic |-> topic, author |-> author, editor |-> None,
                text |-> text, is_deleted |-> FALSE, is_answer |-> FALSE,
                is_question |-> ~is_reply, updated |-> date,
                created |-> date, votes |-> Cell(0), edits |-> Cell(0),
                pending |-> TRUE]),
                       !.topics[topic].last_change = date]
  IN IF "reply" \in Post_init_dispatches(is_reply)
       THEN try_award(s2, "reply", [user |-> author, post |-> pid])
       ELSE s2

\* models.Topic.__init__
Topic_init(s, locale, text, user, date) ==
  LET tid == Len(s.topics) + 1
      s1 == [s EXCEPT !.topics = Append(@,
               [locale |-> locale, reply_count |-> Cell(-1),
                is_deleted |-> FALSE, votes |-> 0,
                question |-> None, date |-> None, author |-> None,
                answer |-> None, answer_author |-> None, answer_date |-> None,
                last_change |-> None, hotness |-> 0, tags |-> {},
                pending |-> TRUE])]
      s2 == Post_init(s1, tid, user, text, date, FALSE)
      q == Len(s2.posts)
      s3 == [s2 EXCEPT !.topics[tid].question = q,
                       !.topics[tid].date = s2.posts[q].created,
                       !.topics[tid].author = s2.posts[q].author,
                       !.topics[tid].last_change = s2.posts[q].created]
      s4 == _update_hotness(s3, tid)
  IN try_award(s4, "new_topic", [user |-> user, topic |-> tid])

\* a lookup that never finds the vote
query_vote_none(s, user, post) == {}

\* _Vote.query.filter_by(user=user, post=self).first(); {} for None
query_vote(s, user, post) ==
  LET found == {v \in s.votes : v.user = user /\ v.post = post}
  IN IF found = {} THEN {} ELSE {CHOOSE v \in found : TRUE}

\* Topic.query.filter_by(question=self).first()
query_topic_by_question(s, post) ==
  LET found == {t \in DOMAIN s.topics : s.topics[t].question = post}
  IN IF found = {} THEN None ELSE CHOOSE t \in found : TRUE

\* _revert_vote as it would be if it left post.votes alone
_revert_vote_keeps_votes(s, post, vote, user) ==
  LET author == s.posts[post].author
  IN IF vote.delta > 0 THEN
       LET s2 == atomic_add(s, "users", user, "upvotes", -1, FALSE)
       IN IF s.posts[post].is_question
            THEN atomic_add(s2, "users", author, "reputation",
                            -GAIN_ON_QUESTION_UPVOTE, FALSE)
            ELSE atomic_add(s2, "users", author, "reputation",
                            -GAIN_ON_UPVOTE, FALSE)
     ELSE IF vote.delta < 0 THEN
       LET s2 == atomic_add(s, "users", user, "downvotes", -1, FALSE)
       IN IF user # author
            THEN atomic_add(
                   atomic_add(s2, "users", author, "reputation",
                              LOSE_ON_DOWNVOTE, FALSE),
                   "users", user, "reputation", DOWNVOTE_PENALTY, FALSE)
            ELSE s2
     ELSE s

\* _revert_vote as it would be if it did not give the voter's penalty back
_revert_vote_keeps_penalty(s, post, vote, user) ==
  LET author == s.posts[post].author
      s1 == atomic_add(s, "posts", post, "votes", -vote.delta, FALSE)
  IN IF vote.delta > 0 THEN
       LET s2 == atomic_add(s1, "users", user, "upvotes", -1, FALSE)
       IN IF s.posts[post].is_question
            THEN atomic_add(s2, "users", author, "reputation",
                            -GAIN_ON_QUESTION_UPVOTE, FALSE)
            ELSE atomic_add(s2, "users", author, "reputation",
                            -GAIN_ON_UPVOTE, FALSE)
     ELSE IF vote.delta < 0 THEN
       LET s2 == atomic_add(s1, "users", user, "downvotes", -1, FALSE)
       IN IF user # author
            THEN atomic_add(s2, "users", author, "reputation",
                            LOSE_ON_DOWNVOTE, FALSE)
            ELSE s2
     ELSE s1

\* models.Post._revert_vote
_revert_vote(s, post, vote, user) ==
  LET author == s.posts[post].author
      s1 == atomic_add(s, "posts", post, "votes", -vote.delta, FALSE)
  IN IF vote.delta > 0 THEN
       LET s2 == atomic_add(s1, "users", user, "upvotes", -1, FALSE)
       IN IF s.posts[post].is_question
            THEN atomic_add(s2, "users", author, "reputation",
                            -GAIN_ON_QUESTION_UPVOTE, FALSE)
            ELSE atomic_add(s2, "users", author, "reputation",
                            -GAIN_ON_UPVOTE, FALSE)
     ELSE IF vote.delta < 0 THEN
       LET s2 == atomic_add(s1, "users", user, "downvotes", -1, FALSE)
       IN IF user # author
            THEN atomic_add(
                   atomic_add(s2, "users", author, "reputation",
                              LOSE_ON_DOWNVOTE, FALSE),
                   "users", user, "reputation", DOWNVOTE_PENALTY, FALSE)
            ELSE s2
     ELSE s1

\* the ledger as it would be if a changed vote were stored as a new row,
\* the old one left as it is
set_vote_ledger_new_row(s, user, post, delta) ==
  LET s0 == flush(s)
      vote == query_vote(s0, user, post)
      old == CHOOSE v \in vote : TRUE
  IN IF delta = 0 THEN
       IF vote # {}
         THEN _revert_vote([s0 EXCEPT !.votes = @ \ {old}], post, old, user)
         ELSE s0
     ELSE
       LET s1 == [s0 EXCEPT !.votes = @ \cup
                    {[user |-> user, post |-> post, delta |-> delta]}]
       IN atomic_add(s1, "posts", post, "votes", delta, TRUE)

\* models.Post._set_vote, lines 643-659: the ledger and the post's counter
set_vote_ledger(s, user, post, delta) ==
  LET s0 == flush(s)
      vote == query_vote(s0, user, post)
      old == CHOOSE v \in vote : TRUE
  IN IF delta = 0 THEN
       IF vote # {}
         THEN _revert_vote([s0 EXCEPT !.votes = @ \ {old}], post, old, user)
         ELSE s0
     ELSE
       LET s1 == IF vote = {}
                   THEN [s0 EXCEPT !.votes = @ \cup
                           {[user |-> user, post |-> post, delta |-> delta]}]
                   ELSE LET r == _revert_vote(s0, post, old, user)
                        IN [r EXCEPT !.votes = (@ \ {old}) \cup
                              {[old EXCEPT !.delta = delta]}]
       IN atomic_add(s1, "posts", post, "votes", delta, TRUE)

\* the mirror as it would be if it read the expired value without a reload
set_vote_reflect_stale(s, post) ==
  LET topic == query_topic_by_question(s, post)
  IN IF topic # None
       THEN [s EXCEPT !.topics[topic].votes = s.posts[post].votes.loc]
       ELSE s

\* models.Post._set_vote, lines 661-665: the topic mirrors its question
set_vote_reflect(s, post) ==
  LET topic == query_topic_by_question(s, post)
  IN IF topic # None
       THEN [s EXCEPT !.posts[post].votes = load(@),
                      !.topics[topic].votes = get_attribute(s.posts[post].votes)]
       ELSE s

\* the effects as they would be if a question's upvote counted like a reply's
set_vote_effects_flat(s, user, post, delta) ==
  LET author == s.posts[post].author
  IN IF delta > 0 THEN
       atomic_add(atomic_add(s, "users", user, "upvotes", 1, FALSE),
                  "users", author, "reputation", GAIN_ON_UPVOTE, FALSE)
     ELSE IF delta < 0 THEN
       LET s1 == atomic_add(s, "users", user, "downvotes", 1, FALSE)
       IN IF author # user
            THEN atomic_add(
                   atomic_add(s1, "users", author, "reputation",
                              -LOSE_ON_DOWNVOTE, FALSE),
                   "users", user, "reputation", -DOWNVOTE_PENALTY, FALSE)
            ELSE s1
     ELSE s

\* the effects as they would be without the exception for one's own post
set_vote_effects_self(s, user, post, delta) ==
  LET author == s.posts[post].author
  IN IF delta > 0 THEN
       LET s1 == atomic_add(s, "users", user, "upvotes", 1, FALSE)
       IN IF s.posts[post].is_question
            THEN atomic_add(s1, "users", author, "reputation",
                            GAIN_ON_QUESTION_UPVOTE, FALSE)
            ELSE atomic_add(s1, "users", author, "reputation",
                            GAIN_ON_UPVOTE, FALSE)
     ELSE IF delta < 0 THEN
       atomic_add(
         atomic_add(atomic_add(s, "users", user, "downvotes", 1, FALSE),
                    "users", author, "reputation", -LOSE_ON_DOWNVOTE, FALSE),
         "users", user, "reputation", -DOWNVOTE_PENALTY, FALSE)
     ELSE s

\* models.Post._set_vote, lines 667-682: the effects of the new vote
set_vote_effects(s, user, post, delta) ==
  LET author == s.posts[post].author
  IN IF delta > 0 THEN
       LET s1 == atomic_add(s, "users", user, "upvotes", 1, FALSE)
       IN IF s.posts[post].is_question
            THEN atomic_add(s1, "users", author, "reputation",
                            GAIN_ON_QUESTION_UPVOTE, FALSE)
            ELSE atomic_add(s1, "users", author, "reputation",
                            GAIN_ON_UPVOTE, FALSE)
     ELSE IF delta < 0 THEN
       LET s1 == atomic_add(s, "users", user, "downvotes", 1, FALSE)
       IN IF author # user
            THEN atomic_add(
                   atomic_add(s1, "users", author, "reputation",
                              -LOSE_ON_DOWNVOTE, FALSE),
                   "users", user, "reputation", -DOWNVOTE_PENALTY, FALSE)
            ELSE s1
     ELSE s

\* a vote that leaves the hotness of the topic as it was
_update_hotness_of_never(s, post) == s

\* Post._set_vote: if self.is_question: self.topic._update_hotness()
_update_hotness_of(s, post) ==
  IF s.posts[post].is_question THEN _update_hotness(s, s.posts[post].topic)
  ELSE s

\* models.Post._set_vote
_set_vote(s, user, post, delta) ==
  LET s1 == set_vote_ledger(s, user, post, delta)
      s2 == set_vote_reflect(s1, post)
      s3 == set_vote_effects(s2, user, post, delta)
      s4 == _update_hotness_of(s3, post)
  IN try_award(s4, "vote", [user |-> user, post |-> post, delta |-> delta])

\* models.Topic._set_vote
Topic_set_vote(s, topic, user, delta) ==
  _set_vote(s, user, s.topics[topic].question, delta)

\* accept_answer as it would be if the previous answer's author lost nothing
accept_answer_no_loss(s, topic, post, user) ==
  LET old == s.topics[topic].answer
      s1 == IF old # None
              THEN [s EXCEPT !.posts[old].is_answer = FALSE]
              ELSE s
      usr == IF user # None THEN user
             ELSE IF post # None THEN s.posts[post].author
             ELSE s.topics[topic].author
      s2 == IF post # None
              THEN [atomic_add([s1 EXCEPT !.posts[post].is_answer = TRUE],
                               "users", s.posts[post].author, "reputation",
                               GAIN_ON_ACCEPTED_ANSWER, FALSE)
                      EXCEPT !.topics[topic].answer_author = s.posts[post].author,
                             !.topics[topic].answer_date = s.posts[post].created]
              ELSE s1
      s3 == [s2 EXCEPT !.topics[topic].answer = post]
  IN try_award(s3, "accept", [user |-> usr, topic |-> topic, post |-> post])

\* accept_answer as it would be if the previous answer kept its is_answer flag
accept_answer_keeps_flag(s, topic, post, user) ==
  LET old == s.topics[topic].answer
      s1 == IF old # None
              THEN atomic_add(s, "users", s.posts[old].author, "reputation",
                              -LOSE_ON_LOST_ANSWER, FALSE)
              ELSE s
      usr == IF user # None THEN user
             ELSE IF post # None THEN s.posts[post].author
             ELSE s.topics[topic].author
      s2 == IF post # None
              THEN [atomic_add([s1 EXCEPT !.posts[post].is_answer = TRUE],
                               "users", s.posts[post].author, "reputation",
                               GAIN_ON_ACCEPTED_ANSWER, FALSE)
                      EXCEPT !.topics[topic].answer_author = s.posts[post].author,
                             !.topics[topic].answer_date = s.posts[post].created]
              ELSE s1
      s3 == [s2 EXCEPT !.topics[topic].answer = post]
  IN try_award(s3, "accept", [user |-> usr, topic |-> topic, post |-> post])

\* models.Topic.accept_answer
accept_answer(s, topic, post, user) ==
  LET old == s.topics[topic].answer
      s1 == IF old # None
              THEN atomic_add([s EXCEPT !.posts[old].is_answer = FALSE],
                              "users", s.posts[old].author, "reputation",
                              -LOSE_ON_LOST_ANSWER, FALSE)
              ELSE s
      usr == IF user # None THEN user
             ELSE IF post # None THEN s.posts[post].author
             ELSE s.topics[topic].author
      s2 == IF post # None
              THEN [atomic_add([s1 EXCEPT !.posts[post].is_answer = TRUE],
                               "users", s.posts[post].author, "reputation",
                               GAIN_ON_ACCEPTED_ANSWER, FALSE)
                      EXCEPT !.topics[topic].answer_author = s.posts[post].author,
                             !.topics[topic].answer_date = s.posts[post].created]
              ELSE s1
      s3 == [s2 EXCEPT !.topics[topic].answer = post]
  IN try_award(s3, "accept", [user |-> usr, topic |-> topic, post |-> post])

\* a revision that takes the editor as it is stored, None included
PostRevision_raw_editor(s, post) ==
  [s EXCEPT !.post_revisions = Append(@,
     [post |-> post, editor |-> s.posts[post].editor,
      date |-> s.posts[post].updated, text |-> s.posts[post].text])]

\* models.PostRevision.__init__: the post as it is goes into the attic
PostRevision(s, post) ==
  [s EXCEPT !.post_revisions = Append(@,
     [post |-> post,
      editor |-> IF s.posts[post].editor # None THEN s.posts[post].editor
                 ELSE s.posts[post].author,
      date |-> s.posts[post].updated,
      text |-> s.posts[post].text])]

\* an edit that stores the revision and leaves the edits of the post alone
edit_uncounted(s, post, new_text, editor, date) ==
  LET ed == IF editor = None THEN s.posts[post].author ELSE editor
      s1 == PostRevision(s, post)
      s2 == [s1 EXCEPT !.posts[post].text = new_text,
                       !.posts[post].editor = ed,
                       !.posts[post].updated = date,
                       !.topics[s.posts[post].topic].last_change = date]
  IN try_award(_update_hotness(s2, s.posts[post].topic), "edit",
               [user |-> ed, post |-> post])

\* models.Post.edit; editor None stands for the default, the author
edit(s, post, new_text, editor, date) ==
  LET ed == IF editor = None THEN s.posts[post].author ELSE editor
      s1 == PostRevision(s, post)
      s2 == [s1 EXCEPT !.posts[post].text = new_text,
                       !.posts[post].editor = ed,
                       !.posts[post].updated = date,
                       !.topics[s.posts[post].topic].last_change = date]
      s3 == atomic_add(_update_hotness(s2, s.posts[post].topic),
                       "posts", post, "edits", 1, FALSE)
  IN try_award(s3, "edit", [user |-> ed, post |-> post])

\* models.User.upvote / downvote / unvote: obj is a Post or a Topic
obj_set_vote(s, obj, user, delta) ==
  IF obj.kind = "topic"
    THEN Topic_set_vote(s, obj.id, user, delta)
    ELSE _set_vote(s, user, obj.id, delta)

upvote(s, user, obj) == obj_set_vote(s, obj, user, 1)

downvote(s, user, obj) == obj_set_vote(s, obj, user, -1)

unvote(s, user, obj) == obj_set_vote(s, obj, user, 0)

\* atomic_add(tag, 'tagged', delta) for every tag of the set
RECURSIVE add_tagged(_, _, _)
add_tagged(s, tag_set, delta) ==
  IF tag_set = {} THEN s
  ELSE LET tag == CHOOSE g \in tag_set : \A h \in tag_set : g <= h
       IN add_tagged(atomic_add(s, "tags", tag, "tagged", delta, FALSE),
                     tag_set \ {tag}, delta)

\* a deletion that does not look at the flag first
delete_again(s, post) ==
  LET topic == s.posts[post].topic
  IN IF s.posts[post].is_question
       THEN [add_tagged(s, s.topics[topic].tags, -1)
               EXCEPT !.topics[topic].is_deleted = TRUE,
                      !.posts[post].is_deleted = TRUE]
       ELSE [atomic_add(s, "topics", topic, "reply_count", -1, FALSE)
               EXCEPT !.posts[post].is_deleted = TRUE]

\* models.Post.delete
delete(s, post) ==
  LET topic == s.posts[post].topic
  IN IF s.posts[post].is_deleted THEN s
     ELSE IF s.posts[post].is_question
       THEN [add_tagged(s, s.topics[topic].tags, -1)
               EXCEPT !.topics[topic].is_deleted = TRUE,
                      !.posts[post].is_deleted = TRUE]
       ELSE [atomic_add(s, "topics", topic, "reply_count", -1, FALSE)
               EXCEPT !.posts[post].is_deleted = TRUE]

\* a restoration that leaves the tag counters alone
restore_uncounted(s, post) ==
  LET topic == s.posts[post].topic
  IN IF ~s.posts[post].is_deleted THEN s
     ELSE IF s.posts[post].is_question
       THEN [s EXCEPT !.topics[topic].is_deleted = FALSE,
                      !.posts[post].is_deleted = FALSE]
       ELSE [atomic_add(s, "topics", topic, "reply_count", 1, FALSE)
               EXCEPT !.posts[post].is_deleted = FALSE]

\* models.Post.restore
restore(s, post) ==
  LET topic == s.posts[post].topic
  IN IF ~s.posts[post].is_deleted THEN s
     ELSE IF s.posts[post].is_question
       THEN [add_tagged(s, s.topics[topic].tags, 1)
               EXCEPT !.topics[topic].is_deleted = FALSE,
                      !.posts[post].is_deleted = FALSE]
       ELSE [atomic_add(s, "topics", topic, "reply_count", 1, FALSE)
               EXCEPT !.posts[post].is_deleted = FALSE]

\* models.Topic.delete / restore: forwarded to the question
Topic_delete(s, topic) == delete(s, s.topics[topic].question)

Topic_restore(s, topic) == restore(s, s.topics[topic].question)

\* models.Tag.__init__: a tag nothing is tagged with, added to the session
Tag_init(s, name, locale) ==
  [s EXCEPT !.tags = Append(@, [name |-> name, locale |-> locale,
                                tagged |-> Cell(0), pending |-> TRUE])]

\* a lookup by name alone, whatever the locale
query_tag_any_locale(s, locale, name) ==
  LET found == {g \in DOMAIN s.tags : s.tags[g].name = name}
  IN IF found = {} THEN None ELSE CHOOSE g \in found : \A h \in found : g <= h

\* Tag.query.filter_by(locale=locale, name=name).first(); None if no row
query_tag(s, locale, name) ==
  LET found == {g \in DOMAIN s.tags :
                  s.tags[g].locale = locale /\ s.tags[g].name = name}
  IN IF found = {} THEN None ELSE CHOOSE g \in found : \A h \in found : g <= h

\* models.TagCounterExtension.append, with the append to topic.tags it hooks
tags_append(s, topic, tag) ==
  [atomic_add(s, "tags", tag, "tagged", 1, FALSE)
     EXCEPT !.topics[topic].tags = @ \cup {tag}]

\* models.TagCounterExtension.remove, with the removal from topic.tags
tags_remove(s, topic, tag) ==
  [atomic_add(s, "tags", tag, "tagged", -1, FALSE)
     EXCEPT !.topics[topic].tags = @ \ {tag}]

\* bind_tags, second loop: lookup_tag (query, autoflushed, or a new Tag) and
\* append for every name to add
RECURSIVE bind_tags_add(_, _, _)
bind_tags_add(s, topic, names) ==
  IF names = {} THEN s
  ELSE LET name == CHOOSE n \in names : TRUE
           s1 == flush(s)
           found == query_tag(s1, s1.topics[topic].locale, name)
           s2 == IF found = None
                   THEN Tag_init(s1, name, s1.topics[topic].locale)
                   ELSE s1
           tag == IF found = None THEN Len(s2.tags) ELSE found
       IN bind_tags_add(tags_append(s2, topic, tag), topic, names \ {name})

\* bind_tags, first loop: remove current_map[name] for every name to drop
RECURSIVE bind_tags_remove(_, _, _, _)
bind_tags_remove(s, topic, names, current_map) ==
  IF names = {} THEN s
  ELSE LET name == CHOOSE n \in names : TRUE
       IN bind_tags_remove(tags_remove(s, topic, current_map[name]), topic,
                           names \ {name}, current_map)

\* models.Topic.bind_tags
bind_tags(s, topic, tag_names) ==
  LET current == s.topics[topic].tags
      currently_attached == {s.tags[g].name : g \in current}
      current_map == [n \in currently_attached |->
                        CHOOSE g \in current : s.tags[g].name = n]
      s1 == bind_tags_remove(s, topic, currently_attached \ tag_names,
                             current_map)
  IN bind_tags_add(s1, topic, tag_names \ currently_attached)

\* a restoration that writes the revision over the post and keeps no record
PostRevision_restore_silent(s, revision) ==
  LET r == s.post_revisions[revision]
  IN [s EXCEPT !.posts[r.post].text = r.text,
               !.posts[r.post].editor = r.editor,
               !.posts[r.post].updated = r.date]

\* models.PostRevision.restore
PostRevision_restore(s, revision) ==
  LET r == s.post_revisions[revision]
  IN edit(s, r.post, r.text, r.editor, r.date)

(* ---------------- solace/views/kb.py ---------------- *)

\* the vote view without its check of the author
vote_view_any_author(s, user, post, val) ==
  LET obj == [kind |-> "post", id |-> post]
      is_admin == s.users[user].is_admin
      reputation == get_attribute(s.users[user].reputation)
  IN IF s.posts[post].is_deleted THEN s
     ELSE IF val = 0 THEN commit(unvote(s, user, obj))
     ELSE IF val = 1 THEN
       IF ~is_admin /\ reputation < UPVOTE THEN s
       ELSE commit(upvote(s, user, obj))
     ELSE IF val = -1 THEN
       IF ~is_admin /\ reputation < DOWNVOTE THEN s
       ELSE commit(downvote(s, user, obj))
     ELSE s

\* views.kb.vote: request.user votes val on the post; a rejection flashes a
\* message and returns, BadRequest is raised for another val: both leave the
\* session as it is; else the vote is cast and committed
vote_view(s, user, post, val) ==
  LET obj == [kind |-> "post", id |-> post]
      is_admin == s.users[user].is_admin
      reputation == get_attribute(s.users[user].reputation)
  IN IF s.posts[post].is_deleted THEN s
     ELSE IF val = 0 THEN commit(unvote(s, user, obj))
     ELSE IF val = 1 THEN
       IF s.posts[post].author = user THEN s
       ELSE IF ~is_admin /\ reputation < UPVOTE THEN s
       ELSE commit(upvote(s, user, obj))
     ELSE IF val = -1 THEN
       IF ~is_admin /\ reputation < DOWNVOTE THEN s
       ELSE commit(downvote(s, user, obj))
     ELSE s

(* ---------------- the state machine ---------------- *)

Texts == 1..NTexts

Dates == 1..NDates

\* the post a vote on obj lands on
target(s, obj) == IF obj.kind = "topic" THEN s.topics[obj.id].question ELSE obj.id

\* the delta of the user's stored vote on the post, 0 without a row
stored_delta(s, user, post) ==
  LET v == query_vote(s, user, post)
  IN IF v = {} THEN 0 ELSE (CHOOSE x \in v : TRUE).delta

\* the counters as an operation finds them, kept in `pre` for the
\* statements that compare an operation's result with what it started from
Counters(s) ==
  [votes |-> [p \in DOMAIN s.posts |-> get_attribute(s.posts[p].votes)],
   topic_votes |-> [t \in DOMAIN s.topics |-> s.topics[t].votes],
   reputation |-> [u \in DOMAIN s.users |-> get_attribute(s.users[u].reputation)],
   upvotes |-> [u \in DOMAIN s.users |-> get_attribute(s.users[u].upvotes)],
   downvotes |-> [u \in DOMAIN s.users |-> get_attribute(s.users[u].downvotes)]]

PostObjects == {[kind |-> "post", id |-> p] : p \in DOMAIN posts}

TopicObjects == {[kind |-> "topic", id |-> t] : t \in DOMAIN topics}

Objects == PostObjects \cup TopicObjects

Store(s) ==
  /\ users' = s.users
  /\ topics' = s.topics
  /\ posts' = s.posts
  /\ votes' = s.votes
  /\ post_revisions' = s.post_revisions
  /\ user_messages' = s.user_messages
  /\ tags' = s.tags

\* an operation recorded with its arguments and the counters it started from
Record(op, user, topic, post, delta, prev) ==
  /\ last' = [op |-> op, user |-> user, topic |-> topic, post |-> post,
              delta |-> delta, prev |-> prev, n |-> 0]
  /\ pre' = Counters(State)
  /\ held' = held
  /\ UNCHANGED <<persisted, requests>>

\* an operation recorded by its name only
Note(op) ==
  /\ last' = [op |-> op, user |-> None, topic |-> None, post |-> None,
              delta |-> 0, prev |-> 0, n |-> 0]
  /\ pre' = pre
  /\ held' = held
  /\ UNCHANGED <<persisted, requests>>

\* the empty forum with n registered users
Empty(n) ==
  [users |-> [u \in 1..n |-> User_init], topics |-> <<>>, posts |-> <<>>,
   votes |-> {}, post_revisions |-> <<>>,
   user_messages |-> [u \in 1..n |-> EmptyBag], tags |-> <<>>]

\* replies to topic 1 by authors[i], authors[i + 1], ...
RECURSIVE with_replies(_, _, _)
with_replies(s, authors, i) ==
  IF i > Len(authors) THEN s
  ELSE with_replies(Post_init(s, 1, authors[i], 1, 1, TRUE), authors, i + 1)

\* n replies, the users taking turns: reply i is written by user (i % NUsers) + 1
InTurn(n) == [i \in 1..n |-> (i % NUsers) + 1]

\* users first..n upvote the post, one after another; every vote is computed
\* in full before the next one starts, the first half of the users before the
\* second
RECURSIVE with_upvotes(_, _, _, _)
with_upvotes(s, post, first, n) ==
  IF first > n THEN s
  ELSE IF first = n
    THEN CHOOSE r \in {commit(upvote(x, n, [kind |-> "post", id |-> post])) :
                         x \in {s}} :
           r = r
  ELSE CHOOSE r \in {with_upvotes(x, post, (first + n) \div 2 + 1, n) :
                       x \in {with_upvotes(s, post, first, (first + n) \div 2)}} :
         r = r

StartTables(s) ==
  /\ users = s.users
  /\ topics = s.topics
  /\ posts = s.posts
  /\ votes = s.votes
  /\ post_revisions = s.post_revisions
  /\ user_messages = s.user_messages
  /\ tags = s.tags
  /\ last = [op |-> "init", user |-> None, topic |-> None, post |-> None,
             delta |-> 0, prev |-> 0, n |-> 0]
  /\ pre = Counters(s)

\* a run of one session: nothing else is in flight
Start(s) ==
  /\ StartTables(s)
  /\ persisted = <<>>
  /\ requests = <<>>

(* ---- the ledger: votes on a topic asked by user 1, with NReplies replies ---- *)

Init ==
  /\ held = <<>>
  /\ Start(commit(with_replies(commit(Topic_init(Empty(NUsers), "en", 1, 1, 1)),
                            InTurn(NReplies), 1)))

Upvote(u, obj) ==
  /\ Store(commit(upvote(State, u, obj)))
  /\ Record("vote", u, None, target(State, obj), 1,
            stored_delta(State, u, target(State, obj)))

Downvote(u, obj) ==
  /\ Store(commit(downvote(State, u, obj)))
  /\ Record("vote", u, None, target(State, obj), -1,
            stored_delta(State, u, target(State, obj)))

Unvote(u, obj) ==
  /\ Store(commit(unvote(State, u, obj)))
  /\ Record("vote", u, None, target(State, obj), 0,
            stored_delta(State, u, target(State, obj)))

Next ==
  \/ \E u \in Users, obj \in Objects : Upvote(u, obj)
  \/ \E u \in Users, obj \in Objects : Downvote(u, obj)
  \/ \E u \in Users, obj \in Objects : Unvote(u, obj)

Spec == Init /\ [][Next]_vars

(* ---- votes of others: user 1 asked and replied, NVoters further users vote ---- *)

InitPolicy ==
  /\ held = <<>>
  /\ Start(commit(with_replies(commit(Topic_init(Empty(1 + NVoters), "en", 1, 1, 1)),
                            <<1>>, 1)))

\* user.upvote(obj), user.downvote(obj), user.unvote(obj) on another's post
VoteByOther(u, obj, delta) ==
  /\ posts[target(State, obj)].author # u
  /\ Store(commit(obj_set_vote(State, obj, u, delta)))
  /\ Record("vote", u, None, target(State, obj), delta,
            stored_delta(State, u, target(State, obj)))

NextPolicy ==
  \E u \in DOMAIN users, obj \in Objects, delta \in {-1, 0, 1} : VoteByOther(u, obj, delta)

SpecPolicy == InitPolicy /\ [][NextPolicy]_vars

(* ---- accepted answers: a topic asked by user 1, with NAnswers replies ---- *)

InitAccept ==
  /\ held = <<>>
  /\ Start(commit(with_replies(commit(Topic_init(Empty(NUsers), "en", 1, 1, 1)),
                            InTurn(NAnswers), 1)))

\* topic.accept_answer(post, user): post a post of the topic or None
AcceptAnswer(t, post, user) ==
  /\ IF post = None THEN TRUE ELSE posts[post].topic = t
  /\ Store(commit(accept_answer(State, t, post, user)))
  /\ Record("accept", user, t, post, 0, topics[t].answer)

\* user.upvote(topic), user.downvote(topic), user.unvote(topic)
VoteOnTopic(u, t, delta) ==
  /\ Store(commit(obj_set_vote(State, [kind |-> "topic", id |-> t], u, delta)))
  /\ Note("vote")

NextAccept ==
  \/ \E t \in DOMAIN topics, post \in DOMAIN posts \cup {None}, user \in Users \cup {None} :
       AcceptAnswer(t, post, user)
  \/ \E u \in Users, t \in DOMAIN topics, delta \in {-1, 0, 1} : VoteOnTopic(u, t, delta)

SpecAccept == InitAccept /\ [][NextAccept]_vars

(* ---- badges: at most MaxOps events on a forum where user 1 asked and ---- *)
(* ---- replied twice and NCrowd further users upvoted both replies     ---- *)

\* the UserBadge rows of every user
Held(s) == [u \in DOMAIN s.users |-> s.users[u]._badges]

InitBadges ==
  LET s == with_upvotes(
             with_upvotes(
               commit(with_replies(commit(Topic_init(Empty(NUsers + NCrowd), "en", 1, 1, 1)),
                                   <<1, 1>>, 1)),
               2, NUsers + 1, NUsers + NCrowd),
             3, NUsers + 1, NUsers + NCrowd)
  IN /\ Start(s)
     /\ held = Held(s)

\* an event recorded with its actor and post, counted, and the badges held
\* before it
Count(op, user, post) ==
  /\ last.n < MaxOps
  /\ last' = [op |-> op, user |-> user, topic |-> None, post |-> post,
              delta |-> 0, prev |-> 0, n |-> last.n + 1]
  /\ pre' = pre
  /\ held' = Held(State)
  /\ UNCHANGED <<persisted, requests>>

CastVote(u, obj, delta) ==
  /\ Count("vote", u, target(State, obj))
  /\ Store(commit(obj_set_vote(State, obj, u, delta)))

Accept(t, post) ==
  /\ Count("accept", None, post)
  /\ IF post = None THEN TRUE ELSE posts[post].topic = t
  /\ Store(commit(accept_answer(State, t, post, None)))

Edit(p, new_text, editor, date) ==
  /\ Count("edit", editor, p)
  /\ Store(commit(edit(State, p, new_text, editor, date)))

NewTopic(u, text, date) ==
  /\ Count("new_topic", u, None)
  /\ Len(topics) < MaxTopics
  /\ Store(commit(Topic_init(State, "en", text, u, date)))

NextBadges ==
  \/ \E u \in Users, obj \in Objects, delta \in {-1, 0, 1} : CastVote(u, obj, delta)
  \/ \E t \in DOMAIN topics, post \in DOMAIN posts \cup {None} : Accept(t, post)
  \/ \E p \in DOMAIN posts, new_text \in Texts, editor \in Users \cup {None}, date \in Dates :
       Edit(p, new_text, editor, date)
  \/ \E u \in Users, text \in Texts, date \in Dates : NewTopic(u, text, date)

SpecBadges == InitBadges /\ [][NextBadges]_vars

(* a forum of tagged topics whose posts are deleted and restored *)

TagNames == {"foo", "bar"}

Locales == {"en", "de"}

tagged(s, g) == get_attribute(s.tags[g].tagged)

\* the tag counters stay near zero
InRange(s) == \A g \in DOMAIN s.tags : abs(tagged(s, g)) <= MaxTagged

InitForum ==
  /\ Start(commit(Topic_init(Empty(NUsers), "en", 1, 1, 1)))
  /\ held = <<>>

\* deleting and restoring record in last.prev whether the post was deleted
\* (1) or not (0) when the operation started

\* forms.QuestionForm.create_topic: the topic, then its tags
Ask(u, locale, names) ==
  /\ Len(topics) < MaxTopics
  /\ Len(posts) < MaxPosts
  /\ Note("ask")
  /\ Store(commit(bind_tags(Topic_init(State, locale, 1, u, 1),
                            Len(topics) + 1, names)))

Reply(u, t) ==
  /\ Len(posts) < MaxPosts
  /\ Record("reply", u, t, None, 0, 0)
  /\ Store(commit(Post_init(State, t, u, 1, 1, TRUE)))

DeletePost(p) ==
  /\ InRange(commit(delete(State, p)))
  /\ Record("delete", None, posts[p].topic, p, 0,
            IF posts[p].is_deleted THEN 1 ELSE 0)
  /\ Store(commit(delete(State, p)))

RestorePost(p) ==
  /\ InRange(commit(restore(State, p)))
  /\ Record("restore", None, posts[p].topic, p, 0,
            IF posts[p].is_deleted THEN 1 ELSE 0)
  /\ Store(commit(restore(State, p)))

BindTags(t, names) ==
  /\ InRange(commit(bind_tags(State, t, names)))
  /\ Record("bind_tags", None, t, None, 0, 0)
  /\ Store(commit(bind_tags(State, t, names)))

NextForum ==
  \/ \E names \in SUBSET TagNames : Ask(1, "en", names)
  \/ \E t \in DOMAIN topics : Reply(NUsers, t)
  \/ \E p \in DOMAIN posts : DeletePost(p)
  \/ \E p \in DOMAIN posts : RestorePost(p)
  \/ \E t \in DOMAIN topics, names \in SUBSET TagNames : BindTags(t, names)

SpecForum == InitForum /\ [][NextForum]_vars

(* two topics in two locales and their tags *)

InitTags ==
  /\ Start(commit(Topic_init(commit(Topic_init(Empty(NUsers), "en", 1, 1, 1)),
                             "de", 1, 1, 1)))
  /\ held = <<>>

NextTags == \E t \in DOMAIN topics, names \in SUBSET TagNames : BindTags(t, names)

SpecTags == InitTags /\ [][NextTags]_vars

(* a question and a reply that are edited and restored from revisions *)

RevTexts == 1..NRevTexts

RevDates == 1..NRevDates

InitRevisions ==
  /\ Start(commit(with_replies(commit(Topic_init(Empty(NUsers), "en", 1, 1, 1)),
                               <<NUsers>>, 1)))
  /\ held = <<>>

RestoreRevision(r) ==
  /\ Count("restore_revision", post_revisions[r].editor, post_revisions[r].post)
  /\ Store(commit(PostRevision_restore(State, r)))

NextRevisions ==
  \/ \E p \in DOMAIN posts, new_text \in RevTexts, editor \in Users \cup {None},
        date \in RevDates : Edit(p, new_text, editor, date)
  \/ \E r \in DOMAIN post_revisions : RestoreRevision(r)

SpecRevisions == InitRevisions /\ [][NextRevisions]_vars

(* requests served at the same time, each in a session of its own, that add
   to the reputation of one user *)

Deltas == {-2, 1, 10}

\* the session of a request sees the row as committed, through its own copy
\* of the attribute; the UPDATE works on the row
on_row(s) ==
  [s EXCEPT !.users[1].reputation.db = persisted.users[1].reputation.db]

\* the row is locked by the transaction that updated it, until it commits
row_locked == \E r \in DOMAIN requests : requests[r].pc = "added"

InitAtomic ==
  /\ StartTables(commit(Empty(1)))
  /\ held = <<>>
  /\ persisted = commit(Empty(1))
  /\ requests \in [1..NRequests ->
                     [pc : {"begin"}, delta : Deltas, expire : BOOLEAN,
                      session : {commit(Empty(1))}]]

Quiet == UNCHANGED <<users, topics, posts, votes, post_revisions, user_messages,
                     tags, last, pre, held>>

\* User.query.get: the request loads the user as committed now
LoadUser(r) ==
  /\ requests[r].pc = "begin"
  /\ requests[r].session # persisted
  /\ requests' = [requests EXCEPT ![r].session = persisted]
  /\ UNCHANGED persisted
  /\ Quiet

\* atomic_add(user, 'reputation', delta) in the session of the request
AtomicAdd(r) ==
  /\ requests[r].pc = "begin"
  /\ ~row_locked
  /\ requests' = [requests EXCEPT
       ![r].pc = "added",
       ![r].session = atomic_add(on_row(requests[r].session), "users", 1,
                                 "reputation", requests[r].delta,
                                 requests[r].expire)]
  /\ UNCHANGED persisted
  /\ Quiet

\* session.commit() of the request: its row is what the others read
CommitRequest(r) ==
  /\ requests[r].pc = "added"
  /\ requests' = [requests EXCEPT ![r].pc = "done"]
  /\ persisted' = [persisted EXCEPT !.users[1].reputation =
                     Cell(requests[r].session.users[1].reputation.db)]
  /\ Quiet

NextAtomic ==
  \/ \E r \in DOMAIN requests : LoadUser(r)
  \/ \E r \in DOMAIN requests : AtomicAdd(r)
  \/ \E r \in DOMAIN requests : CommitRequest(r)

SpecAtomic == InitAtomic /\ [][NextAtomic]_vars

(* one request at a time, step by step inside its transaction, which the
   database may abort at any point before it is committed *)

Ops == {"vote", "accept", "edit", "delete", "restore"}

\* the statements of Post._set_vote, in order: the Vote row, the reflected
\* votes, the counters and the hotness, the badges
vote_step(s, k, user, post, delta) ==
  CASE k = 1 -> set_vote_ledger(s, user, post, delta)
    [] k = 2 -> set_vote_reflect(s, post)
    [] k = 3 -> IF s.posts[post].is_question
                  THEN _update_hotness(set_vote_effects(s, user, post, delta),
                                       s.posts[post].topic)
                  ELSE set_vote_effects(s, user, post, delta)
    [] k = 4 -> try_award(s, "vote", [user |-> user, post |-> post, delta |-> delta])

steps(op) == IF op = "vote" THEN 4 ELSE 1

\* step k of the request r on the session s
request_step(s, r, k) ==
  CASE r.op = "vote" -> vote_step(s, k, r.user, r.post, r.delta)
    [] r.op = "accept" ->
         accept_answer(s, s.posts[r.post].topic,
                       IF s.posts[r.post].is_question THEN None ELSE r.post, None)
    [] r.op = "edit" -> edit(s, r.post, 1, r.user, 1)
    [] r.op = "delete" -> delete(s, r.post)
    [] r.op = "restore" -> restore(s, r.post)

\* what the other requests read after a statement of this session
visible(s) == IF autocommit THEN commit(s) ELSE persisted

Idle == requests[1].pc # "running"

InitTxn ==
  /\ StartTables(commit(with_replies(commit(Topic_init(Empty(NUsers), "en", 1, 1, 1)),
                                     <<NUsers>>, 1)))
  /\ held = <<>>
  /\ persisted = State
  /\ requests = <<[pc |-> "committed", op |-> "init", user |-> None,
                   post |-> None, delta |-> 0, step |-> 0, n |-> 0,
                   before |-> State]>>

\* a request starts: its session holds what is committed; n counts the
\* requests of the run
Begin(op, u, p, delta) ==
  /\ Idle
  /\ requests[1].n < MaxOps
  /\ op # "vote" => delta = 0
  /\ op \in {"accept", "delete", "restore"} => u = None
  /\ op \in {"vote", "edit"} => u # None
  /\ op = "edit" => Len(post_revisions) < MaxRevisions
  /\ requests' = <<[pc |-> "running", op |-> op, user |-> u, post |-> p,
                    delta |-> delta, step |-> 0, n |-> requests[1].n + 1,
                    before |-> persisted]>>
  /\ UNCHANGED <<persisted, last, pre, held>>
  /\ Store(State)

\* the next statement of the request, inside its transaction
Step ==
  LET r == requests[1]
      s == request_step(State, r, r.step + 1)
  IN /\ r.pc = "running"
     /\ r.step < steps(r.op)
     /\ requests' = <<[r EXCEPT !.step = @ + 1]>>
     /\ persisted' = visible(s)
     /\ Store(s)
     /\ UNCHANGED <<last, pre, held>>

\* session.commit() at the end of the view
CommitTxn ==
  LET r == requests[1]
  IN /\ r.pc = "running"
     /\ r.step = steps(r.op)
     /\ requests' = <<[r EXCEPT !.pc = "committed", !.user = None,
                                !.post = None, !.delta = 0]>>
     /\ persisted' = commit(State)
     /\ Store(commit(State))
     /\ UNCHANGED <<last, pre, held>>

\* the transaction is aborted: its statements are undone, the session is
\* back at the committed rows
Abort ==
  LET r == requests[1]
  IN /\ r.pc = "running"
     /\ requests' = <<[r EXCEPT !.pc = "aborted", !.user = None,
                                !.post = None, !.delta = 0]>>
     /\ UNCHANGED <<persisted, last, pre, held>>
     /\ Store(r.before)

NextTxn ==
  \/ \E op \in Ops, u \in Users \cup {None}, p \in DOMAIN posts,
        delta \in {-1, 0, 1} : Begin(op, u, p, delta)
  \/ Step
  \/ CommitTxn
  \/ Abort

SpecTxn == InitTxn /\ [][NextTxn]_vars

(* votes through the view: an author who may downvote, a replier who may
   just upvote, an admin without reputation *)

\* a user with this reputation, admin or not
Member(reputation, is_admin) ==
  [User_init EXCEPT !.reputation = Cell(reputation), !.is_admin = is_admin]

InitView ==
  /\ Start(commit(with_replies(
             commit(Topic_init(
               [Empty(3) EXCEPT !.users = <<Member(DOWNVOTE, FALSE),
                                            Member(UPVOTE, FALSE),
                                            Member(0, TRUE)>>],
               "en", 1, 1, 1)),
             <<2>>, 1)))
  /\ held = <<>>

\* the request /_vote/<post>?val=<val> of a user; last.prev tells whether
\* the request was rejected (0) or went through (1)
VoteView(u, p, val) ==
  /\ Store(vote_view(State, u, p, val))
  /\ last' = [op |-> "vote_view", user |-> None, topic |-> None, post |-> None,
              delta |-> val, n |-> 0,
              prev |-> IF val \in {-1, 0, 1} /\ vote_view(State, u, p, val) # State
                         THEN 1 ELSE 0]
  /\ UNCHANGED <<pre, held, persisted, requests>>

\* a moderator deletes or restores a post
Moderate(p) ==
  /\ Note("moderate")
  /\ Store(commit(IF posts[p].is_deleted THEN restore(State, p)
                  ELSE delete(State, p)))

NextView ==
  \/ \E u \in DOMAIN users, p \in DOMAIN posts, val \in {-1, 0, 1, 2} :
       VoteView(u, p, val)
  \/ \E p \in DOMAIN posts : Moderate(p)

SpecView == InitView /\ [][NextView]_vars

(* two topics created at two instants, voted on by the users *)

\* creation dates of the second topic, in microseconds after the reference
\* instant; the first topic is created one step of the last decimal after
\* it: the second is a step earlier, of the same time, 2 ms later, much later
HotDates == {0, HotnessStep, HotnessStep + 2000, 10 * HotnessStep + 1000}

InitHotness ==
  /\ \E d2 \in HotDates :
       Start(commit(Topic_init(commit(Topic_init(Empty(NFans), "en", 1, 1,
                                                 HotnessStep)),
                               "en", 1, 2, d2)))
  /\ held = <<>>

NextHotness ==
  \E u \in DOMAIN users, t \in DOMAIN topics, delta \in {-1, 0, 1} :
    VoteOnTopic(u, t, delta)

SpecHotness == InitHotness /\ [][NextHotness]_vars

(* requests that vote on the posts of user 1, or edit them, at the same time,
   each in a transaction and a session of its own; user 2 has upvoted the
   question *)

\* the votes table has no key of its own: the committed rows are a bag. A
\* session holds one _Vote object per (user_id, post_id)
loaded(db) == [db EXCEPT !.votes = BagToSet(@)]

\* the objects of a session on the rows as they are now: the UPDATE of
\* atomic_add and the reload of an expired attribute work on the row, the
\* attributes that are not expired stay as they were loaded. user._badges is
\* loaded when it is first read: `lazy` if that is now, in try_award after the
\* UPDATEs of the request have got their rows
on_rows(s, lazy) ==
  [s EXCEPT
     !.users = [u \in DOMAIN s.users |->
        [s.users[u] EXCEPT !.upvotes.db = persisted.users[u].upvotes.db,
                           !.downvotes.db = persisted.users[u].downvotes.db,
                           !.reputation.db = persisted.users[u].reputation.db,
                           !._badges = IF lazy THEN persisted.users[u]._badges
                                       ELSE @]],
     !.posts = [p \in DOMAIN s.posts |->
        [s.posts[p] EXCEPT !.votes.db = persisted.posts[p].votes.db,
                           !.edits.db = persisted.posts[p].edits.db]]]

\* the flush of an attribute: written if the session changed it
flush_attribute(before, after, row) == IF after # before THEN after ELSE row

\* the rows after the commit of a session that went from `before` to
\* `after`: the UPDATEs of atomic_add are on the rows, the flush writes the
\* attributes that were changed, INSERTs the new rows and UPDATEs or DELETEs
\* the votes by their (user_id, post_id)
flush_rows(before, after, db) ==
  LET gone == before.votes \ after.votes
      kept == {v \in BagToSet(db.votes) :
                 \A x \in gone : x.user # v.user \/ x.post # v.post}
  IN [db EXCEPT
        !.users = [u \in DOMAIN db.users |->
           [db.users[u] EXCEPT
              !.upvotes = Cell(after.users[u].upvotes.db),
              !.downvotes = Cell(after.users[u].downvotes.db),
              !.reputation = Cell(after.users[u].reputation.db),
              !.bronce_badges = flush_attribute(before.users[u].bronce_badges,
                                                after.users[u].bronce_badges, @),
              !.silver_badges = flush_attribute(before.users[u].silver_badges,
                                                after.users[u].silver_badges, @),
              !.gold_badges = flush_attribute(before.users[u].gold_badges,
                                              after.users[u].gold_badges, @),
              !.platin_badges = flush_attribute(before.users[u].platin_badges,
                                                after.users[u].platin_badges, @),
              !._badges = @ (+) (after.users[u]._badges (-) before.users[u]._badges)]],
        !.posts = [p \in DOMAIN db.posts |->
           [db.posts[p] EXCEPT
              !.votes = Cell(after.posts[p].votes.db),
              !.edits = Cell(after.posts[p].edits.db),
              !.text = flush_attribute(before.posts[p].text, after.posts[p].text, @),
              !.editor = flush_attribute(before.posts[p].editor,
                                         after.posts[p].editor, @),
              !.updated = flush_attribute(before.posts[p].updated,
                                          after.posts[p].updated, @)]],
        !.post_revisions = @ \o SubSeq(after.post_revisions,
                                       Len(before.post_revisions) + 1,
                                       Len(after.post_revisions)),
        !.topics = [t \in DOMAIN db.topics |->
           [db.topics[t] EXCEPT
              !.last_change = flush_attribute(before.topics[t].last_change,
                                              after.topics[t].last_change, @),
              !.votes = flush_attribute(before.topics[t].votes,
                                        after.topics[t].votes, @),
              !.hotness = flush_attribute(before.topics[t].hotness,
                                          after.topics[t].hotness, @)]],
        !.votes = [v \in kept |-> db.votes[v]] (+) SetToBag(after.votes \ before.votes),
        !.user_messages = [u \in DOMAIN db.user_messages |->
           db.user_messages[u]
             (+) (after.user_messages[u] (-) before.user_messages[u])]]

InitRace ==
  /\ StartTables(with_upvotes(
                   commit(with_replies(commit(Topic_init(Empty(1 + NRacers), "en", 1, 1,
                                                         HotnessStep)),
                                       <<1>>, 1)),
                   1, 2, 2))
  /\ held = <<>>
  /\ persisted = [State EXCEPT !.votes = SetToBag(@)]
  /\ requests \in [1..NRacers ->
                     [pc : {"begin"}, op : {"vote"}, user : 2..(1 + NRacers),
                      post : DOMAIN posts, delta : {-1, 0, 1},
                      before : {State}, session : {State}]
                     \cup
                     [pc : {"begin"}, op : {"edit"}, user : 2..(1 + NRacers),
                      post : DOMAIN posts, delta : {0},
                      before : {State}, session : {State}]]

\* Post.query.get, request.user and the first queries of the request: its
\* session holds the objects as they are committed now
LoadVote(r) ==
  /\ requests[r].pc = "begin"
  /\ requests[r].session # loaded(persisted)
  /\ requests' = [requests EXCEPT ![r].session = loaded(persisted)]
  /\ UNCHANGED persisted
  /\ Quiet

\* the rest of Post._set_vote in the session of the request; its first UPDATE
\* waits for the transaction that holds the row
SetVote(r) ==
  /\ requests[r].pc = "begin"
  /\ requests[r].op = "vote"
  /\ ~row_locked
  /\ requests' = [requests EXCEPT
       ![r].pc = "added",
       ![r].before = on_rows(requests[r].session, TRUE),
       ![r].session = _set_vote(on_rows(requests[r].session, TRUE),
                                requests[r].user, requests[r].post,
                                requests[r].delta)]
  /\ UNCHANGED persisted
  /\ Quiet

\* Post.edit in the session of the request, by the user of the request: the
\* only row it waits for is the post's, so the badges of the editor are read
\* whenever the request gets there, here as early as it loaded its objects
EditPost(r) ==
  /\ requests[r].pc = "begin"
  /\ requests[r].op = "edit"
  /\ ~row_locked
  /\ requests' = [requests EXCEPT
       ![r].pc = "added",
       ![r].before = on_rows(requests[r].session, FALSE),
       ![r].session = edit(on_rows(requests[r].session, FALSE),
                           requests[r].post, 2, requests[r].user, 2)]
  /\ UNCHANGED persisted
  /\ Quiet

\* session.commit() of the request
CommitVote(r) ==
  /\ requests[r].pc = "added"
  /\ requests' = [requests EXCEPT ![r].pc = "done"]
  /\ persisted' = flush_rows(requests[r].before, requests[r].session, persisted)
  /\ Quiet

NextRace ==
  \/ \E r \in DOMAIN requests : LoadVote(r)
  \/ \E r \in DOMAIN requests : SetVote(r)
  \/ \E r \in DOMAIN requests : EditPost(r)
  \/ \E r \in DOMAIN requests : CommitVote(r)

SpecRace == InitRace /\ [][NextRace]_vars

(* votes on the question of user 1 and on the reply of user 2, and accepted
   answers, in any order *)

\* user.upvote(obj), user.downvote(obj) or user.unvote(obj) on a post
VoteOn(u, obj, delta) ==
  /\ Store(commit(obj_set_vote(State, obj, u, delta)))
  /\ Note("vote")

\* topic.accept_answer(post): a post of the topic, or None to unaccept
AcceptPost(t, post) ==
  /\ IF post = None THEN TRUE ELSE posts[post].topic = t
  /\ Store(commit(accept_answer(State, t, post, None)))
  /\ Note("accept")

NextReputation ==
  \/ \E u \in Users, obj \in PostObjects, delta \in {-1, 0, 1} : VoteOn(u, obj, delta)
  \/ \E t \in DOMAIN topics, post \in DOMAIN posts \cup {None} : AcceptPost(t, post)

SpecReputation == Init /\ [][NextReputation]_vars

(* much-voted answers: user 1 asked, user 2 replied twice, NAdmirers further
   users upvoted the first reply and 2 * NAdmirers + 1 the second; user 1
   votes and accepts, at most MaxOps times *)

InitGreat ==
  LET s == with_upvotes(
             with_upvotes(
               commit(with_replies(
                        commit(Topic_init(Empty(3 + 2 * NAdmirers), "en", 1, 1, 1)),
                        <<2, 2>>, 1)),
               2, 3, 2 + NAdmirers),
             3, 3, 3 + 2 * NAdmirers)
  IN /\ Start(s)
     /\ held = Held(s)

NextGreat ==
  \/ \E obj \in PostObjects, delta \in {-1, 0, 1} : CastVote(1, obj, delta)
  \/ \E t \in DOMAIN topics, post \in DOMAIN posts \cup {None} : Accept(t, post)

SpecGreat == InitGreat /\ [][NextGreat]_vars

(* a fresh topic of user 1, created at one of the times of HotDates; then at
   most MaxOps events: votes, edits, accepted answers and a second topic *)

InitCurrent ==
  \E d \in HotDates :
    LET s == commit(Topic_init(Empty(NUsers), "en", 1, 1, d))
    IN /\ Start(s)
       /\ held = Held(s)

SpecCurrent == InitCurrent /\ [][NextBadges]_vars

(* ---------------- the statements ---------------- *)

\* the sum of the deltas of a set of Vote rows
RECURSIVE SumDeltas(_)
SumDeltas(rows) ==
  IF rows = {} THEN 0
  ELSE LET r == CHOOSE x \in rows : TRUE
       IN r.delta + SumDeltas(rows \ {r})

\* the Vote rows stored for a post, and those of one user among them
VotesOn(p) == {v \in votes : v.post = p}

VotesBy(rows, u, p) == {v \in rows : v.user = u /\ v.post = p}

Reputation(s, x) == get_attribute(s.users[x].reputation)

\* what the reputation rules give user x when user u's vote d on post p is
\* applied: +1 (question) or +10 (reply) to the author for an upvote; -2 to
\* the author and -1 to the voter for a downvote of somebody else's post
ReputationEffect(x, u, p, d) ==
  LET a == posts[p].author
  IN IF d = 1 THEN
       IF x = a THEN (IF posts[p].is_question THEN 1 ELSE 10) ELSE 0
     ELSE IF d = -1 /\ u # a THEN
       (IF x = a THEN -2 ELSE 0) + (IF x = u THEN -1 ELSE 0)
     ELSE 0

\* the same without the downvote rules
UpvoteEffect(x, u, p, d) == IF d = 1 THEN ReputationEffect(x, u, p, d) ELSE 0

\* C1: ledger conservation. After any sequence of upvotes, downvotes and
\* unvotes, repeated and switched votes included, the votes of every post,
\* as the attribute reads and as the column holds it, is the sum of the
\* deltas of the Vote rows stored for the post.
C1_LedgerConservation ==
  \A p \in DOMAIN posts :
    /\ get_attribute(posts[p].votes) = SumDeltas(VotesOn(p))
    /\ posts[p].votes.db = SumDeltas(VotesOn(p))

\* both users hold a downvote on a post and the last operation repeated one
\* of them
C1_Witness ==
  /\ last.op = "vote"
  /\ last.prev = -1
  /\ last.delta = -1
  /\ Cardinality(VotesOn(last.post)) = 2
  /\ get_attribute(posts[last.post].votes) = -2
  /\ pre.votes[last.post] = -2

\* C2: topic vote mirror. After any sequence of votes, cast on the topic or
\* on its question post, topic.votes is the votes of the question post.
C2_TopicVoteMirror ==
  \A t \in DOMAIN topics :
    topics[t].votes = get_attribute(posts[topics[t].question].votes)

\* an upvote of the question has been taken back while another user's
\* downvote stays
C2_Witness ==
  /\ last.op = "vote"
  /\ last.prev = 1
  /\ last.delta = 0
  /\ posts[last.post].is_question
  /\ pre.topic_votes[posts[last.post].topic] = 0
  /\ topics[posts[last.post].topic].votes = -1

\* C3: switch delta. No (user, post) ever has two Vote rows, neither between
\* operations nor when the ledger part of a switch is done; that part leaves
\* one row with the new delta, the other rows as they were, post.votes
\* changed by twice the new delta, and the old vote's counter and reputation
\* effects taken back. A completed switch has changed post.votes by exactly
\* -2 or +2, moved the voter between the upvotes and downvotes counters and
\* replaced the old reputation effects by the new ones.
C3_SwitchDelta ==
  /\ \A u \in DOMAIN users, p \in DOMAIN posts : Cardinality(VotesBy(votes, u, p)) <= 1
  /\ \A u \in DOMAIN users, p \in DOMAIN posts, d \in {-1, 1} :
       stored_delta(State, u, p) = -d =>
         LET l == set_vote_ledger(State, u, p, d)
         IN /\ VotesBy(l.votes, u, p) = {[user |-> u, post |-> p, delta |-> d]}
            /\ l.votes \ VotesBy(l.votes, u, p) = votes \ VotesBy(votes, u, p)
            /\ get_attribute(l.posts[p].votes) = get_attribute(posts[p].votes) + 2 * d
            /\ get_attribute(l.users[u].upvotes) =
                 get_attribute(users[u].upvotes) - (IF d = -1 THEN 1 ELSE 0)
            /\ get_attribute(l.users[u].downvotes) =
                 get_attribute(users[u].downvotes) - (IF d = 1 THEN 1 ELSE 0)
            /\ \A x \in DOMAIN users :
                 Reputation(l, x) = Reputation(State, x) - ReputationEffect(x, u, p, -d)
  /\ (last.op = "vote" /\ last.prev # 0 /\ last.delta = -last.prev) =>
       /\ get_attribute(posts[last.post].votes) = pre.votes[last.post] + 2 * last.delta
       /\ VotesBy(votes, last.user, last.post) =
            {[user |-> last.user, post |-> last.post, delta |-> last.delta]}
       /\ get_attribute(users[last.user].upvotes) = pre.upvotes[last.user] + last.delta
       /\ get_attribute(users[last.user].downvotes) = pre.downvotes[last.user] - last.delta
       /\ \A x \in DOMAIN users :
            Reputation(State, x) =
              pre.reputation[x] - ReputationEffect(x, last.user, last.post, last.prev)
                                + ReputationEffect(x, last.user, last.post, last.delta)

\* a user has switched from +1 to -1 on another user's reply
C3_Witness ==
  /\ last.op = "vote"
  /\ last.prev = 1
  /\ last.delta = -1
  /\ ~posts[last.post].is_question
  /\ posts[last.post].author # last.user
  /\ get_attribute(posts[last.post].votes) = pre.votes[last.post] - 2
  /\ Reputation(State, posts[last.post].author) = pre.reputation[posts[last.post].author] - 12

\* C4: vote round trip. When a user without a vote on a post has cast one,
\* retracting it restores post.votes, the voter's upvotes, downvotes and
\* reputation and the author's reputation to what they were before the
\* cast, and leaves no Vote row of the user for the post.
C4_VoteRoundTrip ==
  (last.op = "vote" /\ last.prev = 0 /\ last.delta # 0) =>
    LET back == commit(unvote(State, last.user, [kind |-> "post", id |-> last.post]))
        c == Counters(back)
        author == posts[last.post].author
    IN /\ c.votes[last.post] = pre.votes[last.post]
       /\ c.upvotes[last.user] = pre.upvotes[last.user]
       /\ c.downvotes[last.user] = pre.downvotes[last.user]
       /\ c.reputation[last.user] = pre.reputation[last.user]
       /\ c.reputation[author] = pre.reputation[author]
       /\ VotesBy(back.votes, last.user, last.post) = {}
       /\ back.votes = votes \ VotesBy(votes, last.user, last.post)

\* a downvote of another user's post, the forum's only vote, has been
\* retracted: the penalties are back and nothing is left of the vote
C4_Witness ==
  /\ last.op = "vote"
  /\ last.prev = -1
  /\ last.delta = 0
  /\ last.user # posts[last.post].author
  /\ pre.reputation[last.user] = -1
  /\ pre.reputation[posts[last.post].author] = -2
  /\ pre.votes[last.post] = -1
  /\ votes = {}
  /\ \A u \in DOMAIN users :
       /\ Reputation(State, u) = 0
       /\ get_attribute(users[u].upvotes) = 0
       /\ get_attribute(users[u].downvotes) = 0
  /\ \A p \in DOMAIN posts : get_attribute(posts[p].votes) = 0

C6_SelfDownvoteImmunity ==
  (/\ last.op = "vote"
   /\ last.user = posts[last.post].author
   /\ (last.delta = -1 \/ last.prev = -1)) =>
    /\ \A x \in DOMAIN users :
         Reputation(State, x) =
           pre.reputation[x] - UpvoteEffect(x, last.user, last.post, last.prev)
                             + UpvoteEffect(x, last.user, last.post, last.delta)
    /\ get_attribute(posts[last.post].votes) =
         pre.votes[last.post] - last.prev + last.delta
    /\ get_attribute(users[last.user].downvotes) =
         pre.downvotes[last.user] - (IF last.prev = -1 THEN 1 ELSE 0)
                                  + (IF last.delta = -1 THEN 1 ELSE 0)

\* a user has retracted the downvote of their own post: their reputation is
\* what it was, the post has a vote more and the user a downvote less
C6_Witness ==
  /\ last.op = "vote"
  /\ last.user = posts[last.post].author
  /\ last.prev = -1
  /\ last.delta = 0
  /\ Reputation(State, last.user) = pre.reputation[last.user]
  /\ get_attribute(posts[last.post].votes) = pre.votes[last.post] + 1
  /\ get_attribute(users[last.user].downvotes) = pre.downvotes[last.user] - 1

\* C7: accept/unaccept symmetry. accept_answer takes 50 from the author of
\* the answer it replaces, if there is one, and gives 50 to the author of
\* the post it accepts, if there is one, and changes no other reputation;
\* after a reply was accepted on a topic without an answer,
\* accept_answer(None) restores every reputation to its pre-accept value.
C7_AcceptSymmetry ==
  /\ last.op = "accept" =>
       \A x \in DOMAIN users :
         Reputation(State, x) =
           pre.reputation[x]
             - (IF last.prev # None THEN (IF posts[last.prev].author = x THEN 50 ELSE 0) ELSE 0)
             + (IF last.post # None THEN (IF posts[last.post].author = x THEN 50 ELSE 0) ELSE 0)
  /\ (last.op = "accept" /\ last.post # None /\ last.prev = None) =>
       Counters(commit(accept_answer(State, last.topic, None, None))).reputation
         = pre.reputation

\* the scenario: D, at 50 since their reply was accepted, is back at 0 after
\* accept_answer(None)
C7_Witness ==
  /\ last.op = "accept"
  /\ last.post = None
  /\ last.prev # None
  /\ ~posts[last.prev].is_question
  /\ pre.reputation[posts[last.prev].author] = 50
  /\ Reputation(State, posts[last.prev].author) = 0

\* C8: single accepted answer. After any sequence of accept_answer calls at
\* most one post of a topic has is_answer set, and a post of the topic has
\* it set exactly when it is topic.answer.
C8_SingleAcceptedAnswer ==
  \A t \in DOMAIN topics :
    LET of_topic == {p \in DOMAIN posts : posts[p].topic = t}
    IN /\ Cardinality({p \in of_topic : posts[p].is_answer}) <= 1
       /\ \A p \in of_topic : posts[p].is_answer <=> topics[t].answer = p

\* the accepted answer has been replaced by another reply
C8_Witness ==
  /\ last.op = "accept"
  /\ last.prev # None
  /\ last.post # None
  /\ last.post # last.prev
  /\ posts[last.post].is_answer
  /\ ~posts[last.prev].is_answer
  /\ topics[last.topic].answer = last.post

\* the UserBadge rows of a user that carry the badge
RowsOf(u, b) ==
  [ub \in {x \in BagToSet(users[u]._badges) : x.badge = b} |-> users[u]._badges[ub]]

\* the UserBadge rows of a user whose badge has the level
RowsOfLevel(u, lv) ==
  [ub \in {x \in BagToSet(users[u]._badges) : level(x.badge) = lv} |-> users[u]._badges[ub]]

\* C9: badge idempotency. After any sequence of vote, accept, edit and
\* new-topic events no user holds a single_awarded badge more than once and
\* no user holds two UserBadge rows with the same badge and payload.
C9_BadgeIdempotency ==
  \A u \in DOMAIN users :
    /\ \A i \in DOMAIN badge_list :
         single_awarded(badge_list[i]) => BagCardinality(RowsOf(u, badge_list[i])) <= 1
    /\ \A ub \in BagToSet(users[u]._badges) : CopiesIn(ub, users[u]._badges) = 1

\* user 1, who held the Inquirer badge and the Self-Learner badge for reply 2,
\* has asked a second question, and reply 2, still the answer, has been voted
\* on again: both badges are held once
C9_Witness ==
  /\ last.op = "vote"
  /\ last.post = 2
  /\ posts[2].is_answer
  /\ get_attribute(posts[2].votes) >= 3
  /\ BagIn([badge |-> "self-learner", payload |-> "2"], held[1])
  /\ CopiesIn([badge |-> "self-learner", payload |-> "2"], users[1]._badges) = 1
  /\ Len(topics) = 2
  /\ topics[2].author = 1
  /\ BagCardinality(RowsOf(1, "inquirer")) = 1

\* C10: badge-level counters. After any sequence of awards each of a user's
\* four level counters is the number of UserBadge rows of that level the
\* user holds, every award of a repeatable badge counted.
C10_BadgeLevelCounters ==
  \A u \in DOMAIN users :
    /\ users[u].bronce_badges = BagCardinality(RowsOfLevel(u, "bronce"))
    /\ users[u].silver_badges = BagCardinality(RowsOfLevel(u, "silver"))
    /\ users[u].gold_badges = BagCardinality(RowsOfLevel(u, "gold"))
    /\ users[u].platin_badges = BagCardinality(RowsOfLevel(u, "platin"))

\* user 1 holds the Self-Learner badge for two replies, next to
\* Troubleshooter and Inquirer
C10_Witness ==
  /\ BagIn([badge |-> "self-learner", payload |-> "2"], users[1]._badges)
  /\ BagIn([badge |-> "self-learner", payload |-> "3"], users[1]._badges)
  /\ users[1].silver_badges = 3
  /\ users[1].bronce_badges = 1

\* the replies of a topic that count: not the question, not deleted
CountedReplies(s, t) ==
  {p \in DOMAIN s.posts :
     s.posts[p].topic = t /\ ~s.posts[p].is_question /\ ~s.posts[p].is_deleted}

\* C11: after any sequence of replies, deletions and restorations, those
\* without effect included, the reply_count of every topic, in the session
\* and in its row, is the number of its posts that are neither the question
\* nor deleted; it is 0 right after the topic was created
C11_ReplyCount ==
  /\ \A t \in DOMAIN topics :
       /\ get_attribute(topics[t].reply_count) = Cardinality(CountedReplies(State, t))
       /\ topics[t].reply_count.db = Cardinality(CountedReplies(State, t))
  /\ last.op = "ask" => get_attribute(topics[Len(topics)].reply_count) = 0

\* a reply was deleted again or restored again, without effect, in a topic
\* that has a deleted and a counted reply
C11_Witness ==
  /\ last.op \in {"delete", "restore"}
  /\ ~posts[last.post].is_question
  /\ last.prev = (IF posts[last.post].is_deleted THEN 1 ELSE 0)
  /\ \E p, q \in DOMAIN posts :
       /\ posts[p].topic = last.topic /\ posts[q].topic = last.topic
       /\ ~posts[p].is_question /\ ~posts[q].is_question
       /\ posts[p].is_deleted /\ ~posts[q].is_deleted

\* the topics that count for a tag: bound to it and not deleted
CountedTopics(s, g) ==
  {t \in DOMAIN s.topics : g \in s.topics[t].tags /\ ~s.topics[t].is_deleted}

\* C12: after any sequence of bind_tags, deletions and restorations of
\* questions, bind_tags on a topic whose question is deleted included, the
\* tagged counter of every tag is the number of topics that are bound to it
\* and not deleted
C12_TagCount ==
  \A g \in DOMAIN tags :
    /\ tagged(State, g) = Cardinality(CountedTopics(State, g))
    /\ tags[g].tagged.db = Cardinality(CountedTopics(State, g))

\* the tag counters and the reply counters, as attributes and as columns
TagCounters(s) == [g \in DOMAIN s.tags |-> <<tagged(s, g), s.tags[g].tagged.db>>]

ReplyCounters(s) ==
  [t \in DOMAIN s.topics |->
     <<get_attribute(s.topics[t].reply_count), s.topics[t].reply_count.db>>]

\* C13: deleting the question of a topic (Post.delete or Topic.delete) marks
\* the topic and the post deleted and takes 1 from the counter of every tag
\* bound to the topic and from no other; restoring it unmarks both and gives
\* the 1 back; a deletion followed by a restoration leaves is_deleted, the tag
\* counters and reply_count as they were
C13_DeletionCascade ==
  \A t \in DOMAIN topics :
    LET q == topics[t].question
        d == commit(delete(State, q))
        r == commit(restore(d, q))
        u == commit(restore(State, q))
    IN /\ Topic_delete(State, t) = delete(State, q)
       /\ Topic_restore(State, t) = restore(State, q)
       /\ ~posts[q].is_deleted =>
            /\ d.topics[t].is_deleted /\ d.posts[q].is_deleted
            /\ \A g \in DOMAIN tags :
                 tagged(d, g) = tagged(State, g) - (IF g \in topics[t].tags THEN 1 ELSE 0)
            /\ ~r.topics[t].is_deleted /\ ~r.posts[q].is_deleted
            /\ TagCounters(r) = TagCounters(State)
            /\ ReplyCounters(r) = ReplyCounters(State)
       /\ posts[q].is_deleted =>
            /\ ~u.topics[t].is_deleted /\ ~u.posts[q].is_deleted
            /\ \A g \in DOMAIN tags :
                 tagged(u, g) = tagged(State, g) + (IF g \in topics[t].tags THEN 1 ELSE 0)

\* the deleted question of a topic with tags and a reply was restored
C13_Witness ==
  /\ last.op = "restore" /\ last.prev = 1
  /\ posts[last.post].is_question
  /\ topics[last.topic].tags # {}
  /\ \E g \in DOMAIN tags : g \notin topics[last.topic].tags
  /\ get_attribute(topics[last.topic].reply_count) > 0

\* the names of the tags a topic is bound to
BoundNames(s, t) == {s.tags[g].name : g \in s.topics[t].tags}

\* C14: after bind_tags(names) the topic is bound to the tags of its locale
\* with exactly these names; a tag changes its binding, and its counter by
\* exactly 1, only if its name is in the symmetric difference of the old and
\* the new names; every other tag, the tag of the same name in another locale
\* included, and every other topic keep binding and counter
C14_BindTagsFrame ==
  \A t \in DOMAIN topics, names \in SUBSET TagNames :
    LET b == commit(bind_tags(State, t, names))
        old == BoundNames(State, t)
        changed == (old \ names) \cup (names \ old)
        was(g) == IF g \in DOMAIN tags /\ g \in topics[t].tags THEN 1 ELSE 0
        now(g) == IF g \in b.topics[t].tags THEN 1 ELSE 0
        before(g) == IF g \in DOMAIN tags THEN tagged(State, g) ELSE 0
    IN /\ BoundNames(b, t) = names
       /\ Cardinality(b.topics[t].tags) = Cardinality(names)
       /\ \A g \in b.topics[t].tags : b.tags[g].locale = topics[t].locale
       /\ \A g \in DOMAIN tags :
            b.tags[g].name = tags[g].name /\ b.tags[g].locale = tags[g].locale
       /\ \A g \in DOMAIN b.tags :
            /\ tagged(b, g) = before(g) + now(g) - was(g)
            /\ b.tags[g].tagged.db = tagged(b, g)
            /\ now(g) # was(g) <=>
                 b.tags[g].name \in changed /\ b.tags[g].locale = topics[t].locale
       /\ \A o \in DOMAIN topics : o # t => b.topics[o].tags = topics[o].tags

\* bind_tags has acted and the same name is bound in both locales, by two
\* tags, while another tag is bound to nothing
C14_Witness ==
  /\ last.op = "bind_tags"
  /\ \E g, h \in DOMAIN tags :
       /\ g # h /\ tags[g].name = tags[h].name /\ tags[g].locale # tags[h].locale
       /\ tagged(State, g) = 1 /\ tagged(State, h) = 1
  /\ \E g \in DOMAIN tags : tagged(State, g) = 0

\* the edits of a post, as attribute and as column
Edits(s, p) == <<get_attribute(s.posts[p].edits), s.posts[p].edits.db>>

\* the stored revisions are all there, as they were
KeepsRevisions(s) ==
  /\ Len(s.post_revisions) = Len(post_revisions) + 1
  /\ SubSeq(s.post_revisions, 1, Len(post_revisions)) = post_revisions

\* the post as it is now, as a revision
Snapshot(p) ==
  [post |-> p, text |-> posts[p].text, date |-> posts[p].updated,
   editor |-> IF posts[p].editor = None THEN posts[p].author ELSE posts[p].editor]

\* C15: every Post.edit first stores exactly one revision with the text, the
\* editor (the author if the post was never edited) and the updated date the
\* post had, then gives the post the new text, editor and date and adds 1 to
\* edits; no stored revision is changed or removed, by an edit or by a
\* restoration
C15_RevisionSnapshot ==
  /\ \A p \in DOMAIN posts, new_text \in RevTexts, editor \in Users \cup {None},
        date \in RevDates :
       LET e == commit(edit(State, p, new_text, editor, date))
       IN /\ KeepsRevisions(e)
          /\ e.post_revisions[Len(e.post_revisions)] = Snapshot(p)
          /\ e.posts[p].text = new_text
          /\ e.posts[p].editor = (IF editor = None THEN posts[p].author ELSE editor)
          /\ e.posts[p].updated = date
          /\ Edits(e, p) = <<Edits(State, p)[1] + 1, Edits(State, p)[2] + 1>>
          /\ \A o \in DOMAIN posts : o # p =>
               /\ e.posts[o].text = posts[o].text
               /\ Edits(e, o) = Edits(State, o)
  /\ \A r \in DOMAIN post_revisions :
       KeepsRevisions(commit(PostRevision_restore(State, r)))

\* a post edited before was edited again, by somebody else, to another text
\* at another date
C15_Witness ==
  /\ last.op = "edit"
  /\ \E r \in DOMAIN post_revisions :
       LET rev == post_revisions[r]
       IN /\ r = Len(post_revisions) /\ r > 1
          /\ rev.post = last.post
          /\ rev.editor # posts[rev.post].author
          /\ rev.editor # posts[rev.post].editor
          /\ rev.text # posts[rev.post].text
          /\ rev.date # posts[rev.post].updated

\* the revisions of a post
RevisionsOf(s, p) == {r \in DOMAIN s.post_revisions : s.post_revisions[r].post = p}

\* C16: restoring a revision gives the post the text, editor and date of the
\* revision and is an edit: the post as it was becomes a new revision and
\* edits grows by 1; so edits counts the edits and the restorations of a post
\* (two edits and a restoration: 3)
C16_RevisionRestore ==
  /\ \A r \in DOMAIN post_revisions :
       LET rev == post_revisions[r]
           p == rev.post
           x == commit(PostRevision_restore(State, r))
       IN /\ x.posts[p].text = rev.text
          /\ x.posts[p].editor = rev.editor
          /\ x.posts[p].updated = rev.date
          /\ Len(x.post_revisions) = Len(post_revisions) + 1
          /\ x.post_revisions[Len(x.post_revisions)] = Snapshot(p)
          /\ Edits(x, p) = <<Edits(State, p)[1] + 1, Edits(State, p)[2] + 1>>
          /\ x = commit(edit(State, p, rev.text, rev.editor, rev.date))
  /\ \A p \in DOMAIN posts :
       Edits(State, p) = <<Cardinality(RevisionsOf(State, p)),
                           Cardinality(RevisionsOf(State, p))>>

\* after two edits of a post its first revision was restored: edits is 3 and
\* the post reads as it did at the start
C16_Witness ==
  /\ last.op = "restore_revision"
  /\ Edits(State, last.post) = <<3, 3>>
  /\ posts[last.post].text = post_revisions[1].text
  /\ posts[last.post].text # post_revisions[3].text
  /\ posts[last.post].editor = posts[last.post].author

\* the deltas of the requests that committed
RECURSIVE SumCommitted(_)
SumCommitted(n) ==
  IF n = 0 THEN 0
  ELSE SumCommitted(n - 1) + (IF requests[n].pc = "done" THEN requests[n].delta ELSE 0)

\* C17: however the requests that call atomic_add on one row and commit are
\* interleaved, and whatever copy of the value each of them holds, the
\* committed value is the initial value plus the deltas of the requests that
\* committed: once all have, plus all deltas
C17_AtomicCounter ==
  persisted.users[1].reputation.db = 0 + SumCommitted(Len(requests))

\* all requests committed, and one of them added to a copy that was out of
\* date: what it holds is not what is stored
C17_Witness ==
  /\ \A r \in DOMAIN requests : requests[r].pc = "done"
  /\ \E r \in DOMAIN requests :
       /\ ~requests[r].expire
       /\ get_attribute(requests[r].session.users[1].reputation)
            # persisted.users[1].reputation.db
  /\ \E r, q \in DOMAIN requests : requests[r].delta # requests[q].delta

Entitled(u, val) ==
  \/ users[u].is_admin
  \/ Reputation(State, u) >= (IF val = 1 THEN UPVOTE ELSE DOWNVOTE)

\* the requests the view has to reject
Rejected(u, p, val) ==
  \/ posts[p].is_deleted
  \/ val = 1 /\ (posts[p].author = u \/ ~Entitled(u, 1))
  \/ val = -1 /\ ~Entitled(u, -1)
  \/ val \notin {-1, 0, 1}

\* C19: a request to the vote view records an upvote or a downvote only on a
\* post that is not deleted, an upvote only of somebody who is not the author
\* and is an admin or has a reputation of at least 15, a downvote only of an
\* admin or of somebody with at least 100, reputations as they are when the
\* request is made; the author's downvote on the own post goes through under
\* that condition; a rejected request changes no vote, no counter and no
\* reputation; so no stored upvote is the author's own
C19_VoteViewGuards ==
  /\ \A u \in DOMAIN users, p \in DOMAIN posts, val \in {-1, 0, 1, 2} :
       LET v == vote_view(State, u, p, val)
           row == [user |-> u, post |-> p, delta |-> val]
           recorded == val # 0 /\ row \in v.votes /\ row \notin votes
       IN /\ recorded => ~posts[p].is_deleted
          /\ recorded => val \in {-1, 1} /\ Entitled(u, val)
          /\ recorded /\ val = 1 => posts[p].author # u
          /\ val = -1 /\ posts[p].author = u /\ ~posts[p].is_deleted
               /\ Entitled(u, -1) => row \in v.votes
          /\ val = 1 /\ posts[p].author # u /\ ~posts[p].is_deleted
               /\ Entitled(u, 1) => row \in v.votes
          /\ Rejected(u, p, val) => v = State
  /\ \A row \in votes : row.delta = 1 => posts[row.post].author # row.user

\* the author's downvote of the own post is stored, and the upvote just
\* requested was rejected, of a user who is short of reputation by then
C19_Witness ==
  /\ last.op = "vote_view" /\ last.delta = 1 /\ last.prev = 0
  /\ \E row \in votes : row.delta = -1 /\ posts[row.post].author = row.user
  /\ \E u \in DOMAIN users :
       ~users[u].is_admin /\ Reputation(State, u) < UPVOTE
  /\ \E row \in votes : users[row.user].is_admin

\* C20: the hotness of a topic is round(log10(max(|votes|, 1)) + sign(votes)
\* * secs / 45000, 7) of its votes and its creation time; of two topics with
\* the same positive votes the later one is at least as hot, and hotter if it
\* is later by a step of the last decimal (4.5 ms) or more; of two topics of
\* the same time with positive votes the one with more votes is at least as
\* hot; the same against any topic of up to 12 votes there could be
C20_HotnessOrdering ==
  /\ \A t \in DOMAIN topics :
       topics[t].hotness =
         Log10Table[IF abs(topics[t].votes) > 1 THEN abs(topics[t].votes) ELSE 1]
           + (IF topics[t].votes > 0 THEN round(topics[t].date, HotnessStep)
              ELSE IF topics[t].votes < 0 THEN round(-topics[t].date, HotnessStep)
              ELSE 0)
  /\ \A a, b \in DOMAIN topics :
       /\ topics[a].votes = topics[b].votes /\ topics[a].votes > 0
            /\ topics[a].date <= topics[b].date
            => topics[a].hotness <= topics[b].hotness
       /\ topics[a].votes = topics[b].votes /\ topics[a].votes > 0
            /\ topics[b].date - topics[a].date >= HotnessStep
            => topics[a].hotness < topics[b].hotness
       /\ topics[a].date = topics[b].date /\ topics[a].votes > 0
            /\ topics[a].votes <= topics[b].votes
            => topics[a].hotness <= topics[b].hotness
  /\ \A a \in DOMAIN topics, w \in 1..Len(Log10Table), e \in HotDates :
       /\ topics[a].votes = w /\ topics[a].date <= e
            => topics[a].hotness <= hotness(w, e)
       /\ topics[a].votes = w /\ e <= topics[a].date
            => hotness(w, e) <= topics[a].hotness
       /\ topics[a].votes > 0 /\ topics[a].votes <= w /\ topics[a].date = e
            => topics[a].hotness <= hotness(w, e)

\* two topics with the same three votes: the later one, 2 ms later, is just
\* as hot
C20_Witness ==
  /\ last.op = "vote"
  /\ \E a, b \in DOMAIN topics :
       /\ topics[a].votes = NFans /\ topics[b].votes = NFans
       /\ topics[a].date < topics[b].date
       /\ topics[a].hotness = topics[b].hotness
       /\ topics[a].hotness > 0

\* the requests of the run have all committed
AllDone == \A r \in DOMAIN requests : requests[r].pc = "done"

\* C21: when two requests, each in its own transaction, have changed the
\* votes of the same question post for two users at the same time, casting,
\* switching or retracting, and both have committed, the votes of the topic
\* are the votes of its question post
C21_ConcurrentVoteMirror ==
  (/\ AllDone
   /\ \A r \in DOMAIN requests : requests[r].post = topics[1].question
   /\ \A r, q \in DOMAIN requests : r # q => requests[r].user # requests[q].user)
    => persisted.topics[1].votes
         = persisted.posts[topics[1].question].votes.db

\* the committed Vote rows of a user for a post
VoteRowsOf(u, p) ==
  [v \in {x \in BagToSet(persisted.votes) : x.user = u /\ x.post = p} |->
     persisted.votes[v]]

\* the committed counters are those of the forum as it was, with the vote d of
\* user u on post p as its only vote there
SingleVote(u, p, d) ==
  LET one == commit(_set_vote(State, u, p, d))
      author == posts[p].author
  IN /\ persisted.posts[p].votes.db = one.posts[p].votes.db
     /\ persisted.users[u].upvotes.db = one.users[u].upvotes.db
     /\ persisted.users[u].downvotes.db = one.users[u].downvotes.db
     /\ persisted.users[author].reputation.db = one.users[author].reputation.db

\* every request of the run looked up the Vote rows before any of them
\* committed
LookedUpFirst == \A r \in DOMAIN requests : requests[r].before.votes = votes

\* C22: when two requests of the same user vote on the same post at the same
\* time, both looking up the user's Vote before either commits, then after
\* both commits there is at most one Vote row of the user for the post, and
\* the votes of the post, the upvotes and downvotes of the user and the
\* reputation of the author are those of a single vote
C22_ConcurrentOneVote ==
  \A u \in DOMAIN users, p \in DOMAIN posts :
    (/\ AllDone
     /\ LookedUpFirst
     /\ \A r \in DOMAIN requests : requests[r].user = u /\ requests[r].post = p)
      => /\ BagCardinality(VoteRowsOf(u, p)) <= 1
         /\ \E d \in {-1, 0, 1} : SingleVote(u, p, d)

\* the committed UserBadge rows of a user whose badge has the level
CommittedOfLevel(u, lv) ==
  [ub \in {x \in BagToSet(persisted.users[u]._badges) : level(x.badge) = lv} |->
     persisted.users[u]._badges[ub]]

\* every request of the run read the badges of the user before any of them
\* committed
ReadBadgesFirst(u) ==
  \A r \in DOMAIN requests : requests[r].before.users[u]._badges = users[u]._badges

\* C23: when two requests at the same time each process an event that
\* qualifies the same user for the same single_awarded badge (an edit, for
\* Editor), both reading the badges of the user before either commits, then
\* after both commits the user holds the badge exactly once and each level
\* counter of the user is the number of badges held of that level
C23_ConcurrentBadgeAward ==
  \A u \in DOMAIN users :
    (/\ AllDone
     /\ ReadBadgesFirst(u)
     /\ \A r \in DOMAIN requests : requests[r].user = u /\ requests[r].op = "edit")
      => /\ single_awarded("editor")
         /\ CopiesIn([badge |-> "editor", payload |-> NoPayload],
                     persisted.users[u]._badges) = 1
         /\ persisted.users[u].bronce_badges = BagCardinality(CommittedOfLevel(u, "bronce"))
         /\ persisted.users[u].silver_badges = BagCardinality(CommittedOfLevel(u, "silver"))
         /\ persisted.users[u].gold_badges = BagCardinality(CommittedOfLevel(u, "gold"))
         /\ persisted.users[u].platin_badges = BagCardinality(CommittedOfLevel(u, "platin"))

\* the stored votes with this delta on the posts of user x, questions or
\* replies
VotesFor(x, delta, is_question) ==
  {v \in votes : /\ v.delta = delta
                 /\ posts[v.post].author = x
                 /\ posts[v.post].is_question = is_question}

\* what the ledger and the accepted answers give user x
LedgerReputation(x) ==
  1 * Cardinality(VotesFor(x, 1, TRUE))
  + 10 * Cardinality(VotesFor(x, 1, FALSE))
  - 2 * Cardinality({v \in VotesFor(x, -1, TRUE) \cup VotesFor(x, -1, FALSE) :
                       v.user # x})
  - 1 * Cardinality({v \in votes : /\ v.delta = -1
                                   /\ v.user = x
                                   /\ posts[v.post].author # x})
  + 50 * Cardinality({p \in DOMAIN posts : posts[p].author = x /\ posts[p].is_answer})

HoldsFor(u, badge, p) ==
  BagIn([badge |-> badge, payload |-> str(p)], users[u]._badges)

\* C25: when a vote or an accept event has been processed for a post that is
\* the accepted answer of its topic and has at least 75 votes, its author
\* holds the Great Answer badge with the id of the post as payload, awarded
\* by that event if not held before; likewise Unique Answer at 150 votes
C25_GreatAnswer ==
  (/\ last.op \in {"vote", "accept"}
   /\ last.post # None)
    => LET p == last.post
           answered == posts[p].is_answer /\ topics[posts[p].topic].answer = p
       IN /\ answered /\ get_attribute(posts[p].votes) >= 75
               => HoldsFor(posts[p].author, "great-answer", p)
          /\ answered /\ get_attribute(posts[p].votes) >= 150
               => HoldsFor(posts[p].author, "unique-answer", p)

\* C26: creating a reply (a post that is not the question) hands the 'reply'
\* event to try_award, and creating a topic hands it 'new_topic'
C26_ReplyDispatch ==
  /\ last.op = "reply"
       => "reply" \in Post_init_dispatches(~posts[Len(posts)].is_question)
  /\ last.op = "ask" => "new_topic" \in Topic_init_dispatches

\* C27: after topics were created and their question posts voted on and
\* edited, one event after another, the hotness of every topic is the hotness
\* function of its present votes and its creation date
C27_HotnessCurrent ==
  \A t \in DOMAIN topics :
    /\ topics[t].date = posts[topics[t].question].created
    /\ topics[t].hotness = hotness(topics[t].votes, topics[t].date)

\* a second topic was created, and the question of the first was edited and
\* then voted on: its hotness is no longer that of a topic without votes
C27_Witness ==
  /\ last.op = "vote" /\ last.n = MaxOps
  /\ Len(topics) = 2
  /\ \E r \in DOMAIN post_revisions : post_revisions[r].post = topics[1].question
  /\ topics[1].votes # 0
  /\ topics[1].hotness # hotness(0, topics[1].date)
  /\ topics[1].hotness = hotness(topics[1].votes, topics[1].date)

\* the number of UserBadge rows of a level in a user record
RowsLeft(u, lv) ==
  BagCardinality([ub \in {x \in BagToSet(u._badges) : level(x.badge) = lv} |-> u._badges[ub]])

\* C28: when one of the UserBadge rows a user holds is removed from the
\* user's badges, each level counter is afterwards the number of rows of the
\* level that remain, also when the user holds the badge of the row for
\* several payloads
C28_BadgeRemoval ==
  \A u \in DOMAIN users : \A value \in BagToSet(users[u]._badges) :
    LET after == badges_remove(users[u], value)
    IN /\ CopiesIn(value, after._badges) = CopiesIn(value, users[u]._badges) - 1
       /\ after.bronce_badges = RowsLeft(after, "bronce")
       /\ after.silver_badges = RowsLeft(after, "silver")
       /\ after.gold_badges = RowsLeft(after, "gold")
       /\ after.platin_badges = RowsLeft(after, "platin")

\* the step is a Post.edit of post p
EditStepOf(p) == last'.op = "edit" /\ last'.n = last.n + 1 /\ last'.post = p

\* C29: an edit of the question post recomputes the hotness of the topic and
\* sets the topic's last_change to the date of the edit; an edit of a reply
\* gives the reply its new editor and date, adds 1 to its edits and stores
\* its revision, and leaves last_change and hotness of the topic as they were
C29_EditFrame ==
  [][\A p \in DOMAIN posts : EditStepOf(p) =>
       LET t == posts[p].topic
       IN /\ posts'[p].updated \in RevDates
          /\ posts'[p].editor = (IF last'.user = None THEN posts[p].author
                                  ELSE last'.user)
          /\ get_attribute(posts'[p].edits) = get_attribute(posts[p].edits) + 1
          /\ Len(post_revisions') = Len(post_revisions) + 1
          /\ post_revisions'[Len(post_revisions')].post = p
          /\ IF posts[p].is_question
               THEN /\ topics'[t].last_change = posts'[p].updated
                    /\ topics'[t].hotness = hotness(topics'[t].votes, topics'[t].date)
               ELSE /\ topics'[t].last_change = topics[t].last_change
                    /\ topics'[t].hotness = topics[t].hotness]_vars

\* C30: after edits and restorations of revisions, one after another, the
\* edits of every post, as attribute and as column, is the number of
\* PostRevision rows stored for the post; a post created now starts with
\* edits 0 and without revisions
C30_EditsEqualRevisions ==
  /\ \A p \in DOMAIN posts :
       /\ get_attribute(posts[p].edits) = Cardinality(RevisionsOf(State, p))
       /\ posts[p].edits.db = Cardinality(RevisionsOf(State, p))
  /\ \A u \in Users :
       LET fresh == commit(Post_init(State, 1, u, 1, 1, TRUE))
           p == Len(fresh.posts)
       IN /\ Edits(fresh, p) = <<0, 0>>
          /\ RevisionsOf(fresh, p) = {}

\* the question and the reply were edited once each, then the revision of
\* the question was restored: two revisions of the question, one of the reply
C30_Witness ==
  /\ last.op = "restore_revision"
  /\ posts[last.post].is_question
  /\ Edits(State, last.post) = <<2, 2>>
  /\ Cardinality(RevisionsOf(State, last.post)) = 2
  /\ \E o \in DOMAIN posts :
       /\ ~posts[o].is_question
       /\ Edits(State, o) = <<1, 1>>
       /\ Cardinality(RevisionsOf(State, o)) = 1

====
